---- MODULE Spec2Model ----
(***************************************************************************)
(* Model of the agronomic decision engine of farm-monitor                  *)
(* (backend/services/analysis.py, class AgronomicAnalyzer).                *)
(*                                                                         *)
(* Conventions                                                             *)
(*   - vegetation and moisture indices are integers in hundredths          *)
(*     (0.72 is 72); rainfall is in mm and temperature in degrees C, as    *)
(*     integers: every cut point of the code is a whole number of these.   *)
(*   - a Python str is a sequence of one-character strings.                *)
(*   - a Python dict is a function whose DOMAIN is the set of keys present;*)
(*     a value is <<v>> for the number or boolean v, and <<>> for None.    *)
(*   - a call either returns a value or raises: [exc |-> "", val |-> v]    *)
(*     or [exc |-> "TypeError", val |-> <<>>].                             *)
(***************************************************************************)
EXTENDS Integers, Sequences, FiniteSets, TLC

VARIABLES
    pc,               \* "idle" before the call, "done" after it; in a report, its stage
    now,              \* wall clock, [ord |-> day ordinal, sec |-> second of the day]
    weather_data,     \* argument of analyze
    satellite_data,   \* argument of analyze
    crop_type,        \* argument of analyze and of _assess_crop_health
    planting_date,    \* argument of analyze and of _calculate_growth_stage
    ndvi,             \* local of analyze, argument of the helpers
    ndmi,             \* local of analyze, argument of the helpers
    weather_analysis, \* local of analyze, argument of the helpers
    growth_stage,     \* result of _calculate_growth_stage
    health_status,    \* result of _assess_crop_health
    recommendations,  \* list built by _generate_recommendations
    risks,            \* dict built by _assess_risks
    result,           \* what the call returned, or the exception it raised
    initialized,      \* SatelliteService.initialized
    open_meteo,       \* what the two Open-Meteo requests of a report will meet
    earth_engine,     \* what the Earth Engine calls of a report will meet
    email,            \* request.email
    pdf_result,       \* local of generate_report
    background_tasks, \* the tasks added to the request's BackgroundTasks
    response          \* what generate_report returns or raises

\* the state of the services and of a generate_report request
report_vars == <<initialized, open_meteo, earth_engine, email, pdf_result,
                 background_tasks, response>>

vars == <<pc, now, weather_data, satellite_data, crop_type,
          planting_date, ndvi, ndmi, weather_analysis, growth_stage,
          health_status, recommendations, risks, result, initialized, open_meteo,
          earth_engine, email, pdf_result, background_tasks, response>>

-----------------------------------------------------------------------------
(* Python values *)

None == <<>>
Val(v) == <<v>>

Returned(v) == [exc |-> "", val |-> v]
Raised(e) == [exc |-> e, val |-> None]

\* dict.get(key, default)
Get(d, key, default) == IF key \in DOMAIN d THEN d[key] ELSE default

\* truth value of a flag: None (also what get returns for an absent key) or a bool
Truthy(x) == x # None /\ x[1]

-----------------------------------------------------------------------------
(* datetime.strptime(planting_date, "%Y-%m-%d") and date arithmetic *)

Digits == <<"0", "1", "2", "3", "4", "5", "6", "7", "8", "9">>

IsDigit(c) == \E i \in 1..10 : Digits[i] = c
DigitVal(c) == (CHOOSE i \in 1..10 : Digits[i] = c) - 1

At(s, i) == IF i \in 1..Len(s) THEN s[i] ELSE ""

\* one "%m" or "%d" field starting at position i: the alternatives of the
\* format's regular expression, tried in order; n is the number of
\* characters taken, 0 when none matches.
\* %m is 1[0-2]|0[1-9]|[1-9]
MatchMonth(s, i) ==
    LET a == At(s, i)
        b == At(s, i + 1)
    IN  IF a = "1" /\ b \in {"0", "1", "2"}
        THEN [n |-> 2, v |-> 10 + DigitVal(b)]
        ELSE IF a = "0" /\ IsDigit(b) /\ b # "0"
        THEN [n |-> 2, v |-> DigitVal(b)]
        ELSE IF IsDigit(a) /\ a # "0"
        THEN [n |-> 1, v |-> DigitVal(a)]
        ELSE [n |-> 0, v |-> 0]

\* %d is 3[01]|[12]\d|0[1-9]|[1-9]| [1-9]
MatchDay(s, i) ==
    LET a == At(s, i)
        b == At(s, i + 1)
    IN  IF a = "3" /\ b \in {"0", "1"}
        THEN [n |-> 2, v |-> 30 + DigitVal(b)]
        ELSE IF a \in {"1", "2"} /\ IsDigit(b)
        THEN [n |-> 2, v |-> 10 * DigitVal(a) + DigitVal(b)]
        ELSE IF a = "0" /\ IsDigit(b) /\ b # "0"
        THEN [n |-> 2, v |-> DigitVal(b)]
        ELSE IF IsDigit(a) /\ a # "0"
        THEN [n |-> 1, v |-> DigitVal(a)]
        ELSE IF a = " " /\ IsDigit(b) /\ b # "0"
        THEN [n |-> 2, v |-> DigitVal(b)]
        ELSE [n |-> 0, v |-> 0]

IsLeap(y) == y % 4 = 0 /\ (y % 100 # 0 \/ y % 400 = 0)

DaysInMonth(y, m) ==
    IF m = 2 THEN (IF IsLeap(y) THEN 29 ELSE 28)
    ELSE IF m \in {4, 6, 9, 11} THEN 30 ELSE 31

DaysBeforeYear(y) ==
    (y - 1) * 365 + ((y - 1) \div 4) - ((y - 1) \div 100) + ((y - 1) \div 400)

RECURSIVE DaysBeforeMonth(_, _)
DaysBeforeMonth(y, m) ==
    IF m = 1 THEN 0 ELSE DaysBeforeMonth(y, m - 1) + DaysInMonth(y, m - 1)

\* date.toordinal()
ToOrdinal(y, m, d) == DaysBeforeYear(y) + DaysBeforeMonth(y, m) + d

\* The parsed datetime (midnight of the day), or ValueError: the string does
\* not match the format, text remains after the match, or the fields are
\* not a date of the calendar.
strptime(s) ==
    LET yearOk == (\A i \in 1..4 : IsDigit(At(s, i))) /\ At(s, 5) = "-"
        y == 1000 * DigitVal(s[1]) + 100 * DigitVal(s[2])
               + 10 * DigitVal(s[3]) + DigitVal(s[4])
        mm == MatchMonth(s, 6)
        dd == MatchDay(s, 6 + mm.n + 1)
    IN  IF ~yearOk THEN Raised("ValueError")
        ELSE IF mm.n = 0 \/ At(s, 6 + mm.n) # "-" THEN Raised("ValueError")
        ELSE IF dd.n = 0 \/ Len(s) # 6 + mm.n + dd.n THEN Raised("ValueError")
        ELSE IF y < 1 \/ dd.v > DaysInMonth(y, mm.v) THEN Raised("ValueError")
        ELSE Returned([ord |-> ToOrdinal(y, mm.v, dd.v), sec |-> 0])

SecondsPerDay == 86400

\* (t - planted).days: a timedelta is normalised to 0 <= seconds < 86400,
\* so its days field is the floor of the difference
TimedeltaDays(t, planted) ==
    (t.ord - planted.ord) + ((t.sec - planted.sec) \div SecondsPerDay)

-----------------------------------------------------------------------------
(* AgronomicAnalyzer._calculate_growth_stage *)

\* the day buckets closed on the right instead of on the left
_calculate_growth_stage_inclusive(date, t) ==
    IF date = None THEN "Unknown"
    ELSE LET planted == strptime(date)
             days_since_planting == TimedeltaDays(t, planted.val)
         IN  IF planted.exc # "" THEN "Unknown"
             ELSE IF days_since_planting < 0 THEN "Not Planted"
             ELSE IF days_since_planting <= 30 THEN "Early Growth"
             ELSE IF days_since_planting <= 60 THEN "Vegetative"
             ELSE IF days_since_planting <= 90 THEN "Flowering"
             ELSE IF days_since_planting <= 120 THEN "Fruiting/Grain Fill"
             ELSE "Maturity/Harvest"

\* the parse failure reported in place of a stage
_calculate_growth_stage_parse_error(date, t) ==
    IF date = None THEN "Unknown"
    ELSE LET planted == strptime(date)
             days_since_planting == TimedeltaDays(t, planted.val)
         IN  IF planted.exc # "" THEN planted.exc
             ELSE IF days_since_planting < 0 THEN "Not Planted"
             ELSE IF days_since_planting < 30 THEN "Early Growth"
             ELSE IF days_since_planting < 60 THEN "Vegetative"
             ELSE IF days_since_planting < 90 THEN "Flowering"
             ELSE IF days_since_planting < 120 THEN "Fruiting/Grain Fill"
             ELSE "Maturity/Harvest"

\* date is None or a str (None and the empty str, both falsy, are both <<>>);
\* t is the value datetime.now() returns
_calculate_growth_stage(date, t) ==
    IF date = None THEN "Unknown"
    ELSE LET planted == strptime(date)
             days_since_planting == TimedeltaDays(t, planted.val)
         IN  IF planted.exc # "" THEN "Unknown"
             ELSE IF days_since_planting < 0 THEN "Not Planted"
             ELSE IF days_since_planting < 30 THEN "Early Growth"
             ELSE IF days_since_planting < 60 THEN "Vegetative"
             ELSE IF days_since_planting < 90 THEN "Flowering"
             ELSE IF days_since_planting < 120 THEN "Fruiting/Grain Fill"
             ELSE "Maturity/Harvest"

-----------------------------------------------------------------------------
(* AgronomicAnalyzer.CROP_NDVI_THRESHOLDS and _assess_crop_health *)

Thresholds(e, g, m, p) == [excellent |-> e, good |-> g, moderate |-> m, poor |-> p]

CROP_NDVI_THRESHOLDS ==
    (<<"w", "h", "e", "a", "t">> :> Thresholds(70, 50, 30, 20)) @@
    (<<"c", "o", "r", "n">> :> Thresholds(75, 55, 35, 25)) @@
    (<<"r", "i", "c", "e">> :> Thresholds(80, 60, 40, 30)) @@
    (<<"s", "o", "y", "b", "e", "a", "n">> :> Thresholds(70, 50, 30, 20)) @@
    (<<"c", "o", "t", "t", "o", "n">> :> Thresholds(65, 45, 30, 20)) @@
    (<<"v", "e", "g", "e", "t", "a", "b", "l", "e", "s">> :> Thresholds(70, 50, 35, 25)) @@
    (<<"f", "r", "u", "i", "t">> :> Thresholds(75, 55, 40, 30)) @@
    (<<"o", "t", "h", "e", "r">> :> Thresholds(70, 50, 30, 20))

UpperCase == <<"A", "B", "C", "D", "E", "F", "G", "H", "I", "J", "K", "L", "M",
               "N", "O", "P", "Q", "R", "S", "T", "U", "V", "W", "X", "Y", "Z">>
LowerCase == <<"a", "b", "c", "d", "e", "f", "g", "h", "i", "j", "k", "l", "m",
               "n", "o", "p", "q", "r", "s", "t", "u", "v", "w", "x", "y", "z">>

\* str.lower(), character by character
LowerChar(c) ==
    IF \E i \in 1..26 : UpperCase[i] = c
    THEN LowerCase[CHOOSE i \in 1..26 : UpperCase[i] = c]
    ELSE c

Lower(s) == [i \in 1..Len(s) |-> LowerChar(s[i])]

\* cut points met only when exceeded
_assess_crop_health_strict(v, crop, stage) ==
    LET thresholds == Get(CROP_NDVI_THRESHOLDS, Lower(crop),
                          CROP_NDVI_THRESHOLDS[<<"o", "t", "h", "e", "r">>])
    IN  IF v = None THEN Raised("TypeError")
        ELSE IF v[1] > thresholds.excellent THEN Returned("Excellent")
        ELSE IF v[1] > thresholds.good THEN Returned("Good")
        ELSE IF v[1] > thresholds.moderate THEN Returned("Moderate")
        ELSE IF v[1] > thresholds.poor THEN Returned("Poor")
        ELSE Returned("Critical")

\* the labels of the two middle branches exchanged
_assess_crop_health_swapped(v, crop, stage) ==
    LET thresholds == Get(CROP_NDVI_THRESHOLDS, Lower(crop),
                          CROP_NDVI_THRESHOLDS[<<"o", "t", "h", "e", "r">>])
    IN  IF v = None THEN Raised("TypeError")
        ELSE IF v[1] >= thresholds.excellent THEN Returned("Excellent")
        ELSE IF v[1] >= thresholds.good THEN Returned("Good")
        ELSE IF v[1] >= thresholds.moderate THEN Returned("Poor")
        ELSE IF v[1] >= thresholds.poor THEN Returned("Moderate")
        ELSE Returned("Critical")

\* the table looked up with the crop type as given
_assess_crop_health_case_sensitive(v, crop, stage) ==
    LET thresholds == Get(CROP_NDVI_THRESHOLDS, crop,
                          CROP_NDVI_THRESHOLDS[<<"o", "t", "h", "e", "r">>])
    IN  IF v = None THEN Raised("TypeError")
        ELSE IF v[1] >= thresholds.excellent THEN Returned("Excellent")
        ELSE IF v[1] >= thresholds.good THEN Returned("Good")
        ELSE IF v[1] >= thresholds.moderate THEN Returned("Moderate")
        ELSE IF v[1] >= thresholds.poor THEN Returned("Poor")
        ELSE Returned("Critical")

\* growth_stage is accepted and not read
_assess_crop_health(v, crop, stage) ==
    LET thresholds == Get(CROP_NDVI_THRESHOLDS, Lower(crop),
                          CROP_NDVI_THRESHOLDS[<<"o", "t", "h", "e", "r">>])
    IN  IF v = None THEN Raised("TypeError")
        ELSE IF v[1] >= thresholds.excellent THEN Returned("Excellent")
        ELSE IF v[1] >= thresholds.good THEN Returned("Good")
        ELSE IF v[1] >= thresholds.moderate THEN Returned("Moderate")
        ELSE IF v[1] >= thresholds.poor THEN Returned("Poor")
        ELSE Returned("Critical")

-----------------------------------------------------------------------------
(* AgronomicAnalyzer._generate_recommendations *)

InspectField == "Low vegetation health detected. Inspect field for: (1) Nutrient deficiencies - consider soil testing, (2) Pest or disease pressure, (3) Water stress."
MaintainPractices == "Crops showing excellent health. Maintain current practices."
Irrigation == "Low moisture detected (NDMI < 0.2). Consider irrigation if water is available. Monitor crop water stress symptoms."
Drainage == "High moisture levels detected. Ensure proper drainage to prevent waterlogging."
WaterConservation == "Drought risk: Less than 20mm rainfall in past 30 days. Implement water conservation: mulching, reduce tillage, consider irrigation."
DrainagePreparation == "Heavy rainfall expected (>100mm in next 7 days). Prepare drainage systems, avoid field operations until soil dries."
HeatAdvisory == "High temperature stress (avg >35C). Ensure adequate irrigation, monitor for heat stress symptoms."
ColdAdvisory == "Low temperature detected (avg <10C). Monitor for frost damage, delay sensitive operations."
IrrigationPlanning == "No rainfall expected in next 7 days. Plan irrigation accordingly."
DelayChemicals == "Significant rainfall expected. Delay fertilizer/pesticide applications."
CriticalStage == "Critical flowering stage detected. Ensure optimal water and nutrients. Avoid stress during this period for maximum yield."
FungalScouting == "Conditions favorable for fungal diseases (high rain + moderate temp). Scout regularly, consider preventive fungicide if disease pressure is high."
CropsHealthy == "Crops appear healthy. Continue regular monitoring and maintain good agricultural practices."

Separator == " | "

\* Each block of the function: the advisories it appends, or the exception
\* an ordering comparison with None raises.

HealthAdvice_poor_only(health) ==
    IF health = "Poor" THEN Returned(<<InspectField>>)
    ELSE IF health = "Excellent" THEN Returned(<<MaintainPractices>>)
    ELSE Returned(<<>>)

\* lines 151-162
HealthAdvice(health) ==
    IF health \in {"Poor", "Critical"} THEN Returned(<<InspectField>>)
    ELSE IF health = "Excellent" THEN Returned(<<MaintainPractices>>)
    ELSE Returned(<<>>)

\* the moisture cut points included in their tiers
WaterStressAdvice_inclusive(m) ==
    IF m = None THEN Raised("TypeError")
    ELSE IF m[1] <= 20 THEN Returned(<<Irrigation>>)
    ELSE IF m[1] >= 50 THEN Returned(<<Drainage>>)
    ELSE Returned(<<>>)

\* lines 164-173
WaterStressAdvice(m) ==
    IF m = None THEN Raised("TypeError")
    ELSE IF m[1] < 20 THEN Returned(<<Irrigation>>)
    ELSE IF m[1] > 50 THEN Returned(<<Drainage>>)
    ELSE Returned(<<>>)

\* lines 176-180
DroughtAdvice(wa) ==
    IF Truthy(Get(wa, "drought_risk", None))
    THEN Returned(<<WaterConservation>>) ELSE Returned(<<>>)

\* lines 182-186
FloodAdvice(wa) ==
    IF Truthy(Get(wa, "flood_risk", None))
    THEN Returned(<<DrainagePreparation>>) ELSE Returned(<<>>)

\* lines 188-199
TemperatureAdvice(wa) ==
    IF Truthy(Get(wa, "temperature_stress", None))
    THEN LET avg_temp == Get(wa, "avg_temperature", Val(25))
         IN  IF avg_temp = None THEN Raised("TypeError")
             ELSE IF avg_temp[1] > 35 THEN Returned(<<HeatAdvisory>>)
             ELSE IF avg_temp[1] < 10 THEN Returned(<<ColdAdvisory>>)
             ELSE Returned(<<>>)
    ELSE Returned(<<>>)

\* lines 201-210; None == 0 is False, None > 50 raises
ForecastAdvice(wa) ==
    LET forecast_rain == Get(wa, "forecast_rain_7d", Val(0))
    IN  IF forecast_rain = Val(0) THEN Returned(<<IrrigationPlanning>>)
        ELSE IF forecast_rain = None THEN Raised("TypeError")
        ELSE IF forecast_rain[1] > 50 THEN Returned(<<DelayChemicals>>)
        ELSE Returned(<<>>)

\* the stage advisory attached to the wrong stage
StageAdvice_vegetative(stage, health) ==
    IF stage = "Vegetative" /\ health \in {"Good", "Excellent"}
    THEN Returned(<<CriticalStage>>) ELSE Returned(<<>>)

\* lines 212-217
StageAdvice(stage, health) ==
    IF stage = "Flowering" /\ health \in {"Good", "Excellent"}
    THEN Returned(<<CriticalStage>>) ELSE Returned(<<>>)

\* the advisory's temperature read with the default 0
FungalCondition_cold_default(wa) ==
    LET total_rain == Get(wa, "total_rainfall_30d", Val(0))
        avg_temp == Get(wa, "avg_temperature", Val(0))
    IN  IF total_rain = None THEN Raised("TypeError")
        ELSE IF ~(total_rain[1] > 80) THEN Returned(FALSE)
        ELSE IF avg_temp = None THEN Raised("TypeError")
        ELSE Returned(20 < avg_temp[1] /\ avg_temp[1] < 30)

\* lines 220-222: total_rain > 80 and 20 < avg_temp < 30, as Python evaluates
\* it: left to right, stopping at the first false operand
FungalCondition(wa) ==
    LET total_rain == Get(wa, "total_rainfall_30d", Val(0))
        avg_temp == Get(wa, "avg_temperature", Val(25))
    IN  IF total_rain = None THEN Raised("TypeError")
        ELSE IF ~(total_rain[1] > 80) THEN Returned(FALSE)
        ELSE IF avg_temp = None THEN Raised("TypeError")
        ELSE Returned(20 < avg_temp[1] /\ avg_temp[1] < 30)

\* lines 219-226
FungalAdvice(wa) ==
    LET c == FungalCondition(wa)
    IN  IF c.exc # "" THEN c
        ELSE IF c.val THEN Returned(<<FungalScouting>>) ELSE Returned(<<>>)

\* the blocks one after the other: the first exception ends the call
RECURSIVE InOrder(_)
InOrder(blocks) ==
    IF blocks = <<>> THEN Returned(<<>>)
    ELSE IF Head(blocks).exc # "" THEN Head(blocks)
    ELSE LET rest == InOrder(Tail(blocks))
         IN  IF rest.exc # "" THEN rest
             ELSE Returned(Head(blocks).val \o rest.val)

DefaultAdvice_never(recs) == recs

DefaultAdvice_always(recs) == recs \o <<CropsHealthy>>

\* lines 228-232
DefaultAdvice(recs) == IF recs = <<>> THEN <<CropsHealthy>> ELSE recs

\* sep.join(list): the elements with the separator between neighbours
RECURSIVE Join(_, _)
Join(sep, list) ==
    IF list = <<>> THEN <<>>
    ELSE IF Len(list) = 1 THEN list
    ELSE <<Head(list), sep>> \o Join(sep, Tail(list))

RecommendationList_flood_first(v, m, wa, crop, stage, health) ==
    LET fired == InOrder(<<HealthAdvice(health), WaterStressAdvice(m),
                           FloodAdvice(wa), DroughtAdvice(wa),
                           TemperatureAdvice(wa), ForecastAdvice(wa),
                           StageAdvice(stage, health), FungalAdvice(wa)>>)
    IN  IF fired.exc # "" THEN fired ELSE Returned(DefaultAdvice(fired.val))

\* the list the function has built when it reaches its return statement
RecommendationList(v, m, wa, crop, stage, health) ==
    LET fired == InOrder(<<HealthAdvice(health), WaterStressAdvice(m),
                           DroughtAdvice(wa), FloodAdvice(wa),
                           TemperatureAdvice(wa), ForecastAdvice(wa),
                           StageAdvice(stage, health), FungalAdvice(wa)>>)
    IN  IF fired.exc # "" THEN fired ELSE Returned(DefaultAdvice(fired.val))

_generate_recommendations(v, m, wa, crop, stage, health) ==
    LET list == RecommendationList(v, m, wa, crop, stage, health)
    IN  IF list.exc # "" THEN list ELSE Returned(Join(Separator, list.val))

-----------------------------------------------------------------------------
(* AgronomicAnalyzer._assess_risks *)

\* the moisture and rainfall cut points included in their tiers
DroughtRisk_inclusive(wa, m) ==
    LET total_rain == Get(wa, "total_rainfall_30d", Val(50))
    IN  IF Truthy(Get(wa, "drought_risk", None)) THEN Returned("High")
        ELSE IF m = None THEN Raised("TypeError")
        ELSE IF m[1] <= 20 THEN Returned("High")
        ELSE IF total_rain = None THEN Raised("TypeError")
        ELSE IF total_rain[1] <= 30 THEN Returned("Medium")
        ELSE Returned("Low")

\* lines 247-251: the flag, or ndmi < 0.2 when the flag is not set; else the
\* rainfall, read with a default of 50
DroughtRisk(wa, m) ==
    LET total_rain == Get(wa, "total_rainfall_30d", Val(50))
    IN  IF Truthy(Get(wa, "drought_risk", None)) THEN Returned("High")
        ELSE IF m = None THEN Raised("TypeError")
        ELSE IF m[1] < 20 THEN Returned("High")
        ELSE IF total_rain = None THEN Raised("TypeError")
        ELSE IF total_rain[1] < 30 THEN Returned("Medium")
        ELSE Returned("Low")

\* the forecast cut point included in the Medium tier
FloodRisk_inclusive(wa) ==
    LET forecast_rain == Get(wa, "forecast_rain_7d", Val(0))
    IN  IF Truthy(Get(wa, "flood_risk", None)) THEN Returned("High")
        ELSE IF forecast_rain = None THEN Raised("TypeError")
        ELSE IF forecast_rain[1] >= 50 THEN Returned("Medium")
        ELSE Returned("Low")

\* lines 253-257
FloodRisk(wa) ==
    LET forecast_rain == Get(wa, "forecast_rain_7d", Val(0))
    IN  IF Truthy(Get(wa, "flood_risk", None)) THEN Returned("High")
        ELSE IF forecast_rain = None THEN Raised("TypeError")
        ELSE IF forecast_rain[1] > 50 THEN Returned("Medium")
        ELSE Returned("Low")

\* the temperature range with its ends included
DiseaseCondition_inclusive(wa) ==
    LET total_rain == Get(wa, "total_rainfall_30d", Val(0))
        avg_temp == Get(wa, "avg_temperature", Val(25))
    IN  IF total_rain = None THEN Raised("TypeError")
        ELSE IF ~(total_rain[1] > 80) THEN Returned(FALSE)
        ELSE IF avg_temp = None THEN Raised("TypeError")
        ELSE Returned(20 <= avg_temp[1] /\ avg_temp[1] <= 30)

\* lines 259-261: the condition of the 'High' tier, written out a second time
\* in the source with its own reads of the two fields
DiseaseCondition(wa) ==
    LET total_rain == Get(wa, "total_rainfall_30d", Val(0))
        avg_temp == Get(wa, "avg_temperature", Val(25))
    IN  IF total_rain = None THEN Raised("TypeError")
        ELSE IF ~(total_rain[1] > 80) THEN Returned(FALSE)
        ELSE IF avg_temp = None THEN Raised("TypeError")
        ELSE Returned(20 < avg_temp[1] /\ avg_temp[1] < 30)

\* lines 259-265
DiseaseRisk(wa) ==
    LET total_rain == Get(wa, "total_rainfall_30d", Val(0))
        c == DiseaseCondition(wa)
    IN  IF c.exc # "" THEN c
        ELSE IF c.val THEN Returned("High")
        ELSE IF total_rain[1] > 50 THEN Returned("Medium")
        ELSE Returned("Low")

\* lines 267-269
HeatStressRisk(wa) ==
    IF Truthy(Get(wa, "temperature_stress", None))
    THEN Returned("High") ELSE Returned("Low")

Count(r, level) == Cardinality({k \in DOMAIN r : r[k] = level})

\* the Medium test made before the High test
OverallRisk_medium_first(r) ==
    LET high_risks == Count(r, "High")
        medium_risks == Count(r, "Medium")
    IN  IF high_risks >= 1 \/ medium_risks >= 2 THEN "Medium"
        ELSE IF high_risks >= 2 THEN "High"
        ELSE r["overall"]

\* lines 271-278: the counts run over every value of the dict, the
\* 'overall' entry (still at its initial 'Low') included
OverallRisk(r) ==
    LET high_risks == Count(r, "High")
        medium_risks == Count(r, "Medium")
    IN  IF high_risks >= 2 THEN "High"
        ELSE IF high_risks >= 1 \/ medium_risks >= 2 THEN "Medium"
        ELSE r["overall"]

\* the dict initialised with overall at 'Medium'
CategoryRisks_overall_medium(d, f, s, h) ==
    [drought |-> d, flood |-> f, disease |-> s, heat_stress |-> h, overall |-> "Medium"]

\* the dict with the four categories set, overall still as initialised
CategoryRisks(d, f, s, h) ==
    [drought |-> d, flood |-> f, disease |-> s, heat_stress |-> h, overall |-> "Low"]

_assess_risks(wa, v, m) ==
    LET d == DroughtRisk(wa, m)
        f == FloodRisk(wa)
        s == DiseaseRisk(wa)
        h == HeatStressRisk(wa)
        r == CategoryRisks(d.val, f.val, s.val, h.val)
    IN  IF d.exc # "" THEN d
        ELSE IF f.exc # "" THEN f
        ELSE IF s.exc # "" THEN s
        ELSE Returned([r EXCEPT !["overall"] = OverallRisk(r)])

-----------------------------------------------------------------------------
(* AgronomicAnalyzer.analyze *)

EmptyDict == [k \in {} |-> None]

\* the vegetation index read with a default of 0
analyze_ndvi_default_zero(wd, sd, crop, date, t) ==
    LET v == Get(sd, "ndvi_mean", Val(0))
        m == Get(sd, "ndmi_mean", Val(30))
        wa == Get(wd, "analysis", EmptyDict)
        total_rain == Get(wa, "total_rainfall_30d", Val(0))
        forecast_rain == Get(wa, "forecast_rain_7d", Val(0))
        avg_temp == Get(wa, "avg_temperature", Val(25))
        stage == _calculate_growth_stage(date, t)
        health == _assess_crop_health(v, crop, stage)
        recs == _generate_recommendations(v, m, wa, crop, stage, health.val)
        r == _assess_risks(wa, v, m)
    IN  IF health.exc # "" THEN health
        ELSE IF recs.exc # "" THEN recs
        ELSE IF r.exc # "" THEN r
        ELSE Returned([health_status |-> health.val,
                       growth_stage |-> stage,
                       recommendations |-> recs.val,
                       risks |-> r.val,
                       metrics |-> [ndvi |-> v,
                                    ndmi |-> m,
                                    rainfall_30d |-> total_rain,
                                    forecast_rain_7d |-> forecast_rain,
                                    avg_temperature |-> avg_temp]])

\* the Assessment stamped with the clock of the call
analyze_timestamped(wd, sd, crop, date, t) ==
    LET v == Get(sd, "ndvi_mean", Val(50))
        m == Get(sd, "ndmi_mean", Val(30))
        wa == Get(wd, "analysis", EmptyDict)
        total_rain == Get(wa, "total_rainfall_30d", Val(0))
        forecast_rain == Get(wa, "forecast_rain_7d", Val(0))
        avg_temp == Get(wa, "avg_temperature", Val(25))
        stage == _calculate_growth_stage(date, t)
        health == _assess_crop_health(v, crop, stage)
        recs == _generate_recommendations(v, m, wa, crop, stage, health.val)
        r == _assess_risks(wa, v, m)
    IN  IF health.exc # "" THEN health
        ELSE IF recs.exc # "" THEN recs
        ELSE IF r.exc # "" THEN r
        ELSE Returned([health_status |-> health.val,
                       growth_stage |-> stage,
                       recommendations |-> recs.val,
                       risks |-> r.val,
                       metrics |-> [ndvi |-> v,
                                    ndmi |-> m,
                                    rainfall_30d |-> total_rain,
                                    forecast_rain_7d |-> forecast_rain,
                                    avg_temperature |-> avg_temp],
                       generated_at |-> t])

analyze(wd, sd, crop, date, t) ==
    LET v == Get(sd, "ndvi_mean", Val(50))
        m == Get(sd, "ndmi_mean", Val(30))
        wa == Get(wd, "analysis", EmptyDict)
        total_rain == Get(wa, "total_rainfall_30d", Val(0))
        forecast_rain == Get(wa, "forecast_rain_7d", Val(0))
        avg_temp == Get(wa, "avg_temperature", Val(25))
        stage == _calculate_growth_stage(date, t)
        health == _assess_crop_health(v, crop, stage)
        recs == _generate_recommendations(v, m, wa, crop, stage, health.val)
        r == _assess_risks(wa, v, m)
    IN  IF health.exc # "" THEN health
        ELSE IF recs.exc # "" THEN recs
        ELSE IF r.exc # "" THEN r
        ELSE Returned([health_status |-> health.val,
                       growth_stage |-> stage,
                       recommendations |-> recs.val,
                       risks |-> r.val,
                       metrics |-> [ndvi |-> v,
                                    ndmi |-> m,
                                    rainfall_30d |-> total_rain,
                                    forecast_rain_7d |-> forecast_rain,
                                    avg_temperature |-> avg_temp]])

-----------------------------------------------------------------------------
(* Inputs *)

\* the clock when the model starts, and how far it may advance
Start == [ord |-> ToOrdinal(2026, 3, 1), sec |-> 0]
MaxTicks == 2

\* "%Y-%m-%d" text of three numbers (not necessarily a date of the calendar)
FormatDate(y, m, d) ==
    <<Digits[((y \div 1000) % 10) + 1], Digits[((y \div 100) % 10) + 1],
      Digits[((y \div 10) % 10) + 1], Digits[(y % 10) + 1], "-",
      Digits[(m \div 10) + 1], Digits[(m % 10) + 1], "-",
      Digits[(d \div 10) + 1], Digits[(d % 10) + 1]>>

\* every day number of every month of two years, 31 February included
CalendarTexts == {FormatDate(y, m, d) : y \in {2025, 2026}, m \in 1..12, d \in 1..31}

MalformedDates ==
    { <<"s", "o", "o", "n">>,
      <<"2", "0", "2", "6", "/", "0", "1", "/", "1", "5">>,
      <<"2", "0", "2", "6", "-", "1", "3", "-", "0", "1">>,
      <<"2", "0", "2", "6", "-", "0", "1", "-", "1", "5", "T">>,
      <<"2", "6", "-", "0", "1", "-", "1", "5">>,
      <<"0", "0", "0", "0", "-", "0", "1", "-", "1", "5">> }

\* accepted by the format without zero padding
UnpaddedDates ==
    { <<"2", "0", "2", "6", "-", "1", "-", "5">>,
      <<"2", "0", "2", "5", "-", "1", "2", "-", "3">> }

\* a dict from a choice of a value or Absent for every key
Absent == <<"absent", "absent">>
MakeDict(choice) == [k \in {j \in DOMAIN choice : choice[j] # Absent} |-> choice[k]]

UnusedArg == None

\* no report is being generated: the satellite service as constructed
\* (satellite.py line 19), no request, no response
NoReport ==
    /\ initialized = FALSE
    /\ open_meteo = None
    /\ earth_engine = None
    /\ email = None
    /\ pdf_result = None
    /\ background_tasks = <<>>
    /\ response = None

-----------------------------------------------------------------------------
(* The clock *)

HalfDays(t) == 2 * (t.ord - Start.ord) + (t.sec \div (SecondsPerDay \div 2))

\* half a day passes while no call is running
Tick ==
    /\ pc = "idle"
    /\ HalfDays(now) < MaxTicks
    /\ now' = [ord |-> now.ord + ((now.sec + (SecondsPerDay \div 2)) \div SecondsPerDay),
               sec |-> (now.sec + (SecondsPerDay \div 2)) % SecondsPerDay]
    /\ UNCHANGED <<pc, weather_data, satellite_data, crop_type, planting_date,
                   ndvi, ndmi, weather_analysis, growth_stage, health_status,
                   recommendations, risks, result>>
    /\ UNCHANGED report_vars

-----------------------------------------------------------------------------
(* A call of _calculate_growth_stage *)

PlantingDates == CalendarTexts \cup MalformedDates \cup UnpaddedDates \cup {None}

InitStage ==
    /\ pc = "idle"
    /\ now = Start
    /\ planting_date \in PlantingDates
    /\ weather_data = UnusedArg
    /\ satellite_data = UnusedArg
    /\ crop_type = UnusedArg
    /\ ndvi = UnusedArg
    /\ ndmi = UnusedArg
    /\ weather_analysis = UnusedArg
    /\ growth_stage = None
    /\ health_status = None
    /\ recommendations = None
    /\ risks = None
    /\ result = None
    /\ NoReport

CalculateGrowthStage ==
    /\ pc = "idle"
    /\ pc' = "done"
    /\ growth_stage' = _calculate_growth_stage(planting_date, now)
    /\ result' = Returned(growth_stage')
    /\ UNCHANGED <<now, weather_data, satellite_data, crop_type, planting_date,
                   ndvi, ndmi, weather_analysis, health_status,
                   recommendations, risks>>
    /\ UNCHANGED report_vars

NextStage == CalculateGrowthStage \/ Tick

SpecStage == InitStage /\ [][NextStage]_vars

-----------------------------------------------------------------------------
(* A call of _assess_crop_health *)

UpperChar(c) ==
    IF \E i \in 1..26 : LowerCase[i] = c
    THEN UpperCase[CHOOSE i \in 1..26 : LowerCase[i] = c]
    ELSE c

Upper(s) == [i \in 1..Len(s) |-> UpperChar(s[i])]
Capitalize(s) == [i \in 1..Len(s) |-> IF i = 1 THEN UpperChar(s[i]) ELSE s[i]]
Alternate(s) == [i \in 1..Len(s) |-> IF i % 2 = 0 THEN UpperChar(s[i]) ELSE s[i]]

ProfileKeys == DOMAIN CROP_NDVI_THRESHOLDS

UnknownCrops ==
    { <<"b", "a", "r", "l", "e", "y">>,
      <<"W", "H", "E", "A", "T", " ">>,
      <<"r", "y", "e">>,
      <<>> }

CropNames ==
    ProfileKeys \cup {Upper(k) : k \in ProfileKeys}
                \cup {Capitalize(k) : k \in ProfileKeys}
                \cup {Alternate(k) : k \in ProfileKeys}
                \cup UnknownCrops

\* indices from -1.00 to 1.00 by 0.01, and a step beyond at both ends
MaxIndex == 101
IndexValues == {Val(n) : n \in -MaxIndex..MaxIndex}

InitHealth ==
    /\ pc = "idle"
    /\ now = Start
    /\ ndvi \in IndexValues
    /\ crop_type \in CropNames
    /\ growth_stage \in {"Unknown", "Flowering"}
    /\ planting_date = UnusedArg
    /\ weather_data = UnusedArg
    /\ satellite_data = UnusedArg
    /\ ndmi = UnusedArg
    /\ weather_analysis = UnusedArg
    /\ health_status = None
    /\ recommendations = None
    /\ risks = None
    /\ result = None
    /\ NoReport

AssessCropHealth ==
    /\ pc = "idle"
    /\ pc' = "done"
    /\ result' = _assess_crop_health(ndvi, crop_type, growth_stage)
    /\ health_status' = result'.val
    /\ UNCHANGED <<now, weather_data, satellite_data, crop_type, planting_date,
                   ndvi, ndmi, weather_analysis, growth_stage,
                   recommendations, risks>>
    /\ UNCHANGED report_vars

NextHealth == AssessCropHealth

SpecHealth == InitHealth /\ [][NextHealth]_vars

-----------------------------------------------------------------------------
(* A call of _generate_recommendations and a call of _assess_risks *)

HealthCategories == {"Excellent", "Good", "Moderate", "Poor", "Critical"}
GrowthStages == {"Not Planted", "Early Growth", "Vegetative", "Flowering",
                 "Fruiting/Grain Fill", "Maturity/Harvest", "Unknown"}
RiskLevels == {"Low", "Medium", "High"}

\* the weather analysis records of numbers and flags, every key optional
Flags == {Absent, Val(FALSE), Val(TRUE)}
Rainfalls == {Absent} \cup {Val(n) : n \in {0, 29, 30, 50, 51, 80, 81}}
FungalRainfalls == {Absent} \cup {Val(n) : n \in {0, 80, 81}}
Forecasts == {Absent} \cup {Val(n) : n \in {0, 10, 50, 51}}
Temperatures == {Absent} \cup {Val(n) : n \in {9, 10, 20, 21, 29, 30, 35, 36}}

WeatherAnalyses(rainfalls) ==
    {MakeDict(c) : c \in [total_rainfall_30d : rainfalls,
                          forecast_rain_7d : Forecasts,
                          avg_temperature : Temperatures,
                          drought_risk : {Val(FALSE), Val(TRUE)},
                          flood_risk : {Val(FALSE), Val(TRUE)},
                          temperature_stress : Flags]}

MoistureValues == {Val(n) : n \in {10, 19, 20, 21, 35, 50, 51}}

InitRecommendations ==
    /\ pc = "idle"
    /\ now = Start
    /\ ndvi = Val(50)
    /\ ndmi \in MoistureValues
    /\ weather_analysis \in WeatherAnalyses(FungalRainfalls)
    /\ crop_type = <<"w", "h", "e", "a", "t">>
    /\ growth_stage \in {"Flowering", "Vegetative", "Unknown"}
    /\ health_status \in HealthCategories
    /\ planting_date = UnusedArg
    /\ weather_data = UnusedArg
    /\ satellite_data = UnusedArg
    /\ recommendations = None
    /\ risks = None
    /\ result = None
    /\ NoReport

GenerateRecommendations ==
    /\ pc = "idle"
    /\ pc' = "done"
    /\ result' = _generate_recommendations(ndvi, ndmi, weather_analysis,
                                           crop_type, growth_stage, health_status)
    /\ recommendations' = result'.val
    /\ UNCHANGED <<now, weather_data, satellite_data, crop_type, planting_date,
                   ndvi, ndmi, weather_analysis, growth_stage, health_status,
                   risks>>
    /\ UNCHANGED report_vars

NextRecommendations == GenerateRecommendations

SpecRecommendations == InitRecommendations /\ [][NextRecommendations]_vars

InitRisks ==
    /\ pc = "idle"
    /\ now = Start
    /\ ndvi = Val(50)
    /\ ndmi \in MoistureValues
    /\ weather_analysis \in WeatherAnalyses(Rainfalls)
    /\ crop_type = UnusedArg
    /\ growth_stage = None
    /\ health_status = None
    /\ planting_date = UnusedArg
    /\ weather_data = UnusedArg
    /\ satellite_data = UnusedArg
    /\ recommendations = None
    /\ risks = None
    /\ result = None
    /\ NoReport

AssessRisks ==
    /\ pc = "idle"
    /\ pc' = "done"
    /\ result' = _assess_risks(weather_analysis, ndvi, ndmi)
    /\ risks' = result'.val
    /\ UNCHANGED <<now, weather_data, satellite_data, crop_type, planting_date,
                   ndvi, ndmi, weather_analysis, growth_stage, health_status,
                   recommendations>>
    /\ UNCHANGED report_vars

NextRisks == AssessRisks

SpecRisks == InitRisks /\ [][NextRisks]_vars

-----------------------------------------------------------------------------
(* A call of analyze *)

\* the summaries of the two upstream services: every numeric field is a
\* number, None or absent
SatelliteSummaries ==
    {MakeDict(c) : c \in [ndvi_mean : {Absent, None, Val(15), Val(72)},
                          ndmi_mean : {Absent, None, Val(10), Val(35)}]}

SummaryAnalyses ==
    {MakeDict(c) : c \in [total_rainfall_30d : {Absent, None, Val(10), Val(45), Val(90)},
                          forecast_rain_7d : {Absent, None, Val(0), Val(10), Val(60)},
                          avg_temperature : {Absent, None, Val(22), Val(40)},
                          drought_risk : {Val(FALSE), Val(TRUE)},
                          flood_risk : {Val(FALSE), Val(TRUE)},
                          temperature_stress : {Val(FALSE), Val(TRUE)}]}

WeatherSummaries == {EmptyDict} \cup {[analysis |-> a] : a \in SummaryAnalyses}

RequestCrops == { <<"w", "h", "e", "a", "t">>, <<"r", "i", "c", "e">>,
                  <<"b", "a", "r", "l", "e", "y">> }

\* no date, an unparsable one, and 60 days before the clock's start
RequestDates == { None, <<"s", "o", "o", "n">>, FormatDate(2025, 12, 31) }

Init ==
    /\ pc = "idle"
    /\ now = Start
    /\ weather_data \in WeatherSummaries
    /\ satellite_data \in SatelliteSummaries
    /\ crop_type \in RequestCrops
    /\ planting_date \in RequestDates
    /\ ndvi = None
    /\ ndmi = None
    /\ weather_analysis = None
    /\ growth_stage = None
    /\ health_status = None
    /\ recommendations = None
    /\ risks = None
    /\ result = None
    /\ NoReport

\* the whole call: the locals read from the summaries, then the Assessment
\* returned or the exception raised
Analyze ==
    /\ pc = "idle"
    /\ pc' = "done"
    /\ result' = analyze(weather_data, satellite_data, crop_type, planting_date, now)
    /\ ndvi' = Get(satellite_data, "ndvi_mean", Val(50))
    /\ ndmi' = Get(satellite_data, "ndmi_mean", Val(30))
    /\ weather_analysis' = Get(weather_data, "analysis", EmptyDict)
    /\ growth_stage' = _calculate_growth_stage(planting_date, now)
    /\ health_status' = IF result'.exc = "" THEN result'.val.health_status ELSE None
    /\ recommendations' = IF result'.exc = "" THEN result'.val.recommendations ELSE None
    /\ risks' = IF result'.exc = "" THEN result'.val.risks ELSE None
    /\ UNCHANGED <<now, weather_data, satellite_data, crop_type, planting_date>>
    /\ UNCHANGED report_vars

Next == Analyze \/ Tick

Spec == Init /\ [][Next]_vars

-----------------------------------------------------------------------------
(* analyze for every crop name, on summaries with or without the indices *)

\* satellite summaries of numbers, either index possibly missing
CropSummaries ==
    {MakeDict(c) : c \in [ndvi_mean : {Absent, Val(15), Val(50), Val(85)},
                          ndmi_mean : {Absent, Val(35)}]}

\* weather.py lines 212-220: the analysis the weather service falls back to
FallbackAnalysis ==
    [total_rainfall_30d |-> Val(0), avg_temperature |-> Val(25),
     rainfall_trend |-> Val("unknown"),
     forecast_rain_7d |-> Val(0), temperature_stress |-> Val(FALSE),
     drought_risk |-> Val(FALSE), flood_risk |-> Val(FALSE)]

InitCrops ==
    /\ pc = "idle"
    /\ now = Start
    /\ weather_data \in {EmptyDict, [analysis |-> FallbackAnalysis]}
    /\ satellite_data \in CropSummaries
    /\ crop_type \in CropNames
    /\ planting_date \in {None, FormatDate(2025, 12, 31)}
    /\ ndvi = None
    /\ ndmi = None
    /\ weather_analysis = None
    /\ growth_stage = None
    /\ health_status = None
    /\ recommendations = None
    /\ risks = None
    /\ result = None
    /\ NoReport

NextCrops == Analyze

SpecCrops == InitCrops /\ [][NextCrops]_vars

-----------------------------------------------------------------------------
(* Calls of analyze one after the other on the analyzer the requests share *)

\* main.py line 91 builds one AgronomicAnalyzer for every request; a request
\* hands it summaries with every field, with none, or with no analysis at all
RepeatWeather == {EmptyDict, [analysis |-> EmptyDict], [analysis |-> FallbackAnalysis]}
RepeatSatellite == {EmptyDict, [ndvi_mean |-> Val(15), ndmi_mean |-> Val(10)]}
RepeatDates == {None, FormatDate(2025, 12, 2)}

InitRepeat ==
    /\ pc = "idle"
    /\ now = Start
    /\ weather_data \in RepeatWeather
    /\ satellite_data \in RepeatSatellite
    /\ crop_type \in CropNames
    /\ planting_date \in RepeatDates
    /\ ndvi = None
    /\ ndmi = None
    /\ weather_analysis = None
    /\ growth_stage = None
    /\ health_status = None
    /\ recommendations = None
    /\ risks = None
    /\ result = None
    /\ NoReport

\* the call has returned and the next request arrives with its own arguments;
\* the locals of the finished call are gone
NextRequest ==
    /\ pc = "done"
    /\ pc' = "idle"
    /\ weather_data' \in RepeatWeather
    /\ satellite_data' \in RepeatSatellite
    /\ crop_type' \in CropNames
    /\ planting_date' \in RepeatDates
    /\ ndvi' = None
    /\ ndmi' = None
    /\ weather_analysis' = None
    /\ growth_stage' = None
    /\ health_status' = None
    /\ recommendations' = None
    /\ risks' = None
    /\ result' = None
    /\ UNCHANGED now
    /\ UNCHANGED report_vars

NextRepeat == Analyze \/ Tick \/ NextRequest

SpecRepeat == InitRepeat /\ [][NextRepeat]_vars

-----------------------------------------------------------------------------
(* WeatherService *)

\* A Python list is a sequence of Val(n) and None; the empty list and a
\* missing value are both <<>>, and both are falsy.  Of the dicts the service
\* builds the model keeps the keys that the service, analyze and
\* generate_report read.

\* sum(list): adding None raises TypeError
RECURSIVE Sum(_)
Sum(list) ==
    IF list = <<>> THEN Returned(0)
    ELSE IF Head(list) = None THEN Raised("TypeError")
    ELSE LET rest == Sum(Tail(list))
         IN  IF rest.exc # "" THEN rest ELSE Returned(Head(list)[1] + rest.val)

\* list[a:b] by 1-based positions a..b, cut to the list
Slice(list, a, b) ==
    LET lo == IF a < 1 THEN 1 ELSE a
        hi == IF b > Len(list) THEN Len(list) ELSE b
    IN  SubSeq(list, lo, hi)

\* weather.py line 179
RECURSIVE NotNone(_)
NotNone(list) ==
    IF list = <<>> THEN <<>>
    ELSE IF Head(list) = None THEN NotNone(Tail(list))
    ELSE <<Head(list)>> \o NotNone(Tail(list))

\* weather.py lines 94-115; a request is Raised(..) or Returned(the "daily"
\* dict of the reply)
_get_historical_weather(request) ==
    IF request.exc # "" THEN EmptyDict
    ELSE [precipitation |-> Get(request.val, "precipitation_sum", <<>>),
          temp_mean |-> Get(request.val, "temperature_2m_mean", <<>>)]

\* weather.py lines 134-154
_get_forecast_weather(request) ==
    IF request.exc # "" THEN EmptyDict
    ELSE [precipitation |-> Get(request.val, "precipitation_sum", <<>>)]

\* weather.py lines 196-203: recent > previous * 1.5, recent < previous * 0.5
RainfallTrend(rainfall) ==
    IF rainfall # <<>> /\ Len(rainfall) >= 14
    THEN LET recent == Sum(Slice(rainfall, Len(rainfall) - 6, Len(rainfall))).val
             previous == Sum(Slice(rainfall, Len(rainfall) - 13, Len(rainfall) - 7)).val
         IN  IF 2 * recent > 3 * previous THEN "increasing"
             ELSE IF 2 * recent < previous THEN "decreasing"
             ELSE "stable"
    ELSE "stable"

\* the temperature flag raised at 35 and at 10 degrees too
_analyze_weather_data_inclusive(historical, forecast) ==
    LET rainfall == Get(historical, "precipitation", <<>>)
        temps == NotNone(Get(historical, "temp_mean", <<>>))
        ahead == Get(forecast, "precipitation", <<>>)
        total == Sum(rainfall)
        avg == IF temps # <<>> THEN Sum(temps).val \div Len(temps) ELSE 0
        coming == Sum(ahead)
    IN  IF total.exc # "" THEN total
        ELSE IF coming.exc # "" THEN coming
        ELSE Returned([total_rainfall_30d |-> Val(total.val),
                       avg_temperature |-> Val(avg),
                       rainfall_trend |-> Val(RainfallTrend(rainfall)),
                       forecast_rain_7d |-> Val(coming.val),
                       temperature_stress |-> Val(temps # <<>> /\ (avg >= 35 \/ avg <= 10)),
                       drought_risk |-> Val(rainfall # <<>> /\ total.val < 20),
                       flood_risk |-> Val(ahead # <<>> /\ coming.val > 100)])

\* weather.py lines 156-205: the analysis dict, or the TypeError of a sum;
\* the lists fed to it have whole means, so sum(temps) / len(temps) is \div
_analyze_weather_data(historical, forecast) ==
    LET rainfall == Get(historical, "precipitation", <<>>)
        temps == NotNone(Get(historical, "temp_mean", <<>>))
        ahead == Get(forecast, "precipitation", <<>>)
        total == Sum(rainfall)
        avg == IF temps # <<>> THEN Sum(temps).val \div Len(temps) ELSE 0
        coming == Sum(ahead)
    IN  IF total.exc # "" THEN total
        ELSE IF coming.exc # "" THEN coming
        ELSE Returned([total_rainfall_30d |-> Val(total.val),
                       avg_temperature |-> Val(avg),
                       rainfall_trend |-> Val(RainfallTrend(rainfall)),
                       forecast_rain_7d |-> Val(coming.val),
                       temperature_stress |-> Val(temps # <<>> /\ (avg > 35 \/ avg < 10)),
                       drought_risk |-> Val(rainfall # <<>> /\ total.val < 20),
                       flood_risk |-> Val(ahead # <<>> /\ coming.val > 100)])

\* weather.py lines 207-223
_get_fallback_weather_data ==
    [historical |-> EmptyDict,
     forecast |-> EmptyDict,
     analysis |-> FallbackAnalysis,
     error |-> Val("Weather data temporarily unavailable")]

\* weather.py lines 39-67: requests is what the archive and the forecast
\* request meet
get_weather_analysis(requests) ==
    LET historical == _get_historical_weather(requests.archive)
        forecast == _get_forecast_weather(requests.forecast)
        analysis == _analyze_weather_data(historical, forecast)
    IN  IF analysis.exc # "" THEN _get_fallback_weather_data
        ELSE [historical |-> historical, forecast |-> forecast, analysis |-> analysis.val]

-----------------------------------------------------------------------------
(* SatelliteService *)

\* What the Earth Engine calls of one fetch meet is a record: image says how
\* the steps up to image.getInfo() end ("raises", "none" for no image,
\* "found"), ndvi and ndmi what each reduceRegion(..).getInfo() does (raises,
\* or returns the mean, which may be null), metadata how the two metadata
\* reads end, and uniform the numbers random.uniform draws for mock data.

\* satellite.py lines 196-210
_categorize_ndvi(ndvi_value) ==
    IF ndvi_value = None THEN "Unknown"
    ELSE IF ndvi_value[1] > 60 THEN "Excellent"
    ELSE IF ndvi_value[1] > 40 THEN "Good"
    ELSE IF ndvi_value[1] > 30 THEN "Moderate"
    ELSE IF ndvi_value[1] > 20 THEN "Poor"
    ELSE "Very Poor"

\* satellite.py lines 166-194: an exception of the reduction is caught here
\* and answered with nulls
_get_statistics(reduction) ==
    IF reduction.exc # "" THEN [mean |-> None] ELSE [mean |-> reduction.val]

\* satellite.py lines 212-234; the draws are on the model's grid of
\* hundredths, where round(x, 3) changes nothing
_get_mock_satellite_data(uniform) ==
    [ndvi_mean |-> Val(uniform.ndvi_mean),
     ndmi_mean |-> Val(uniform.ndmi_mean),
     health_category |-> Val(_categorize_ndvi(Val(uniform.ndvi_mean))),
     mock_data |-> Val(TRUE)]

\* satellite.py lines 76-135
get_ndvi_analysis(is_initialized, ee) ==
    IF ~is_initialized THEN _get_mock_satellite_data(ee.uniform)
    ELSE IF ee.image = "raises" THEN _get_mock_satellite_data(ee.uniform)
    ELSE IF ee.image = "none" THEN _get_mock_satellite_data(ee.uniform)
    ELSE LET ndvi_stats == _get_statistics(ee.ndvi)
             ndmi_stats == _get_statistics(ee.ndmi)
         IN  IF ee.metadata = "raises" THEN _get_mock_satellite_data(ee.uniform)
             ELSE [ndvi_mean |-> ndvi_stats.mean,
                   ndmi_mean |-> ndmi_stats.mean,
                   health_category |-> Val(_categorize_ndvi(ndvi_stats.mean))]

-----------------------------------------------------------------------------
(* generate_report: the request through the services, analyze and the PDF *)

\* In these specifications pc is the stage generate_report is about to run:
\* "weather", "satellite", "idle" (about to call analyze), "done" (analyze has
\* ended), "pdf" (the PDF is built), then "responded" or "failed".

RequestFailure == Raised("RequestException")
ReductionFailure == Raised("EEException")

\* fourteen days of rain: the earlier week's in one day, the later week's in one day
TwoWeeks(previous, recent) ==
    [i \in 1..14 |-> IF i = 7 THEN Val(previous) ELSE IF i = 14 THEN Val(recent) ELSE Val(0)]

\* what the two requests meet: the archive request raises, or replies
\* without daily data, or with a list of rain and a list of mean temperatures;
\* the forecast request raises or replies with a list of rain
WeatherOutcomes ==
    LET PrecipitationLists ==
            { <<>>, <<Val(0)>>, <<Val(10), Val(9)>>, <<Val(20)>>, <<Val(81)>>, <<Val(5), None>>,
              TwoWeeks(10, 20), TwoWeeks(20, 5), TwoWeeks(10, 10) }
        TemperatureLists ==
            { <<>>, <<None>>, <<Val(9)>>, <<Val(10)>>, <<Val(21), None>>, <<Val(25)>>,
              <<Val(35)>>, <<Val(30), Val(42)>> }
        ForecastLists ==
            { <<>>, <<Val(0)>>, <<Val(50)>>, <<Val(51)>>, <<Val(100)>>, <<Val(60), Val(41)>>,
              <<None>> }
    IN  [archive : {RequestFailure, Returned(EmptyDict)}
                       \cup {Returned([precipitation_sum |-> p, temperature_2m_mean |-> t]) :
                                 p \in PrecipitationLists, t \in TemperatureLists},
         forecast : {RequestFailure}
                        \cup {Returned([precipitation_sum |-> p]) : p \in ForecastLists}]

\* a month of 81 mm at 25 degrees with 51 mm ahead
WetMonth ==
    [archive |-> Returned([precipitation_sum |-> <<Val(81)>>,
                           temperature_2m_mean |-> <<Val(25)>>]),
     forecast |-> Returned([precipitation_sum |-> <<Val(51)>>])]

EarthEngineOutcomes ==
    [image : {"raises", "none", "found"},
     ndvi : {ReductionFailure, Returned(None), Returned(Val(15)), Returned(Val(72))},
     ndmi : {ReductionFailure, Returned(Val(35))},
     metadata : {"raises", "ok"},
     uniform : [ndvi_mean : {40, 70}, ndmi_mean : {20, 50}]]

\* an image whose reductions return the means 0.72 and 0.35
ClearImage ==
    [image |-> "found", ndvi |-> Returned(Val(72)), ndmi |-> Returned(Val(35)),
     metadata |-> "ok", uniform |-> [ndvi_mean |-> 55, ndmi_mean |-> 35]]

\* the same image with the reduction of the vegetation index raising
FailedReduction == [ClearImage EXCEPT !.ndvi = ReductionFailure]

Address == <<"a", "@", "b", ".", "c">>

\* the state when a request arrives: nothing fetched, nothing computed
RequestArrives ==
    /\ pc = "weather"
    /\ now = Start
    /\ initialized = FALSE
    /\ weather_data = None
    /\ satellite_data = None
    /\ ndvi = None
    /\ ndmi = None
    /\ weather_analysis = None
    /\ growth_stage = None
    /\ health_status = None
    /\ recommendations = None
    /\ risks = None
    /\ result = None
    /\ pdf_result = None
    /\ background_tasks = <<>>
    /\ response = None

\* satellite.py lines 22-50: the authentication succeeds, or it fails and the
\* flag is left as it was
Initialize ==
    /\ pc = "weather"
    /\ \E authenticated \in BOOLEAN : initialized' = (initialized \/ authenticated)
    /\ UNCHANGED <<pc, now, weather_data, satellite_data, crop_type, planting_date,
                   ndvi, ndmi, weather_analysis, growth_stage, health_status,
                   recommendations, risks, result, open_meteo, earth_engine,
                   email, pdf_result, background_tasks, response>>

\* main.py lines 137-142
GetWeatherAnalysis ==
    /\ pc = "weather"
    /\ pc' = "satellite"
    /\ weather_data' = get_weather_analysis(open_meteo)
    /\ UNCHANGED <<now, satellite_data, crop_type, planting_date,
                   ndvi, ndmi, weather_analysis, growth_stage, health_status,
                   recommendations, risks, result>>
    /\ UNCHANGED report_vars

\* main.py lines 144-150
GetNdviAnalysis ==
    /\ pc = "satellite"
    /\ pc' = "idle"
    /\ satellite_data' = get_ndvi_analysis(initialized, earth_engine)
    /\ UNCHANGED <<now, weather_data, crop_type, planting_date,
                   ndvi, ndmi, weather_analysis, growth_stage, health_status,
                   recommendations, risks, result>>
    /\ UNCHANGED report_vars

\* main.py lines 198-203
HTTPException == [status_code |-> 500]

\* analyze raised (main.py lines 154-160): the except clause ends the request
RaiseHTTPException ==
    /\ pc = "done"
    /\ result.exc # ""
    /\ pc' = "failed"
    /\ response' = HTTPException
    /\ UNCHANGED <<now, weather_data, satellite_data, crop_type, planting_date,
                   ndvi, ndmi, weather_analysis, growth_stage, health_status,
                   recommendations, risks, result, initialized, open_meteo,
                   earth_engine, email, pdf_result, background_tasks>>

\* main.py lines 162-172, pdf_gen.py lines 90-143: the PDF is built, or
\* building it raises, which generate_report re-raises into the except clause
GeneratePdf ==
    /\ pc = "done"
    /\ result.exc = ""
    /\ \E built \in BOOLEAN :
           IF built
           THEN /\ pc' = "pdf"
                /\ pdf_result' = [pdf_base64 |-> Val("JVBERi0="), filename |-> Val("report.pdf")]
                /\ UNCHANGED response
           ELSE /\ pc' = "failed"
                /\ response' = HTTPException
                /\ UNCHANGED pdf_result
    /\ UNCHANGED <<now, weather_data, satellite_data, crop_type, planting_date,
                   ndvi, ndmi, weather_analysis, growth_stage, health_status,
                   recommendations, risks, result, initialized, open_meteo,
                   earth_engine, email, background_tasks>>

\* the email task added whatever the request holds
PrepareResponse_always_mails ==
    /\ pc = "pdf"
    /\ pc' = "responded"
    /\ response' = [status_code |-> 200,
                    ndvi_value |-> Get(satellite_data, "ndvi_mean", None),
                    health_status |-> result.val.health_status,
                    recommendations |-> result.val.recommendations,
                    pdf_base64 |-> Get(pdf_result, "pdf_base64", None)]
    /\ background_tasks' =
           Append(background_tasks,
                  [func |-> "send_email_report", email |-> email,
                   pdf_base64 |-> Get(pdf_result, "pdf_base64", None)])
    /\ UNCHANGED <<now, weather_data, satellite_data, crop_type, planting_date,
                   ndvi, ndmi, weather_analysis, growth_stage, health_status,
                   recommendations, risks, result, initialized, open_meteo,
                   earth_engine, email, pdf_result>>

\* main.py lines 174-196: the response, and the email task when request.email
\* is truthy
PrepareResponse ==
    /\ pc = "pdf"
    /\ pc' = "responded"
    /\ response' = [status_code |-> 200,
                    ndvi_value |-> Get(satellite_data, "ndvi_mean", None),
                    health_status |-> result.val.health_status,
                    recommendations |-> result.val.recommendations,
                    pdf_base64 |-> Get(pdf_result, "pdf_base64", None)]
    /\ background_tasks' =
           IF email # <<>>
           THEN Append(background_tasks,
                       [func |-> "send_email_report", email |-> email,
                        pdf_base64 |-> Get(pdf_result, "pdf_base64", None)])
           ELSE background_tasks
    /\ UNCHANGED <<now, weather_data, satellite_data, crop_type, planting_date,
                   ndvi, ndmi, weather_analysis, growth_stage, health_status,
                   recommendations, risks, result, initialized, open_meteo,
                   earth_engine, email, pdf_result>>

NextReport ==
    \/ Initialize
    \/ GetWeatherAnalysis
    \/ GetNdviAnalysis
    \/ Tick
    \/ Analyze
    \/ RaiseHTTPException
    \/ GeneratePdf
    \/ PrepareResponse

\* requests with and without an email and a planting date, on services that
\* answer, fail, or answer with nulls
InitReport ==
    /\ RequestArrives
    /\ open_meteo \in {WetMonth, [archive |-> RequestFailure, forecast |-> RequestFailure],
                       [WetMonth EXCEPT !.forecast = Returned([precipitation_sum |-> <<None>>])]}
    /\ earth_engine \in {ClearImage, FailedReduction, [ClearImage EXCEPT !.image = "none"],
                         [ClearImage EXCEPT !.metadata = "raises"]}
    /\ crop_type = <<"w", "h", "e", "a", "t">>
    /\ planting_date \in {None, FormatDate(2025, 12, 31)}
    /\ email \in {None, Address}

SpecReport == InitReport /\ [][NextReport]_vars

\* every outcome of the two weather requests
InitWeather ==
    /\ RequestArrives
    /\ open_meteo \in WeatherOutcomes
    /\ earth_engine \in {ClearImage, FailedReduction}
    /\ crop_type = <<"w", "h", "e", "a", "t">>
    /\ planting_date = None
    /\ email = None

SpecWeather == InitWeather /\ [][NextReport]_vars

\* every outcome of the Earth Engine calls, for every crop name
InitSatellite ==
    /\ RequestArrives
    /\ open_meteo = WetMonth
    /\ earth_engine \in EarthEngineOutcomes
    /\ crop_type \in CropNames
    /\ planting_date = None
    /\ email = None

SpecSatellite == InitSatellite /\ [][NextReport]_vars

-----------------------------------------------------------------------------
(* The characters of the recommendation text, and the renderer that splits it *)

\* The advisories above are named by their wording; these are their
\* characters as the source writes them, one element a character, a
\* character outside ASCII written as its code point.

\* lines 153-158
InspectFieldText ==
    <<"U+26A0", "U+FE0F", " ", "L", "o", "w", " ", "v", "e", "g", "e", "t",
      "a", "t", "i", "o", "n", " ", "h", "e", "a", "l", "t", "h", " ", "d",
      "e", "t", "e", "c", "t", "e", "d", ".", " ", "I", "n", "s", "p", "e",
      "c", "t", " ", "f", "i", "e", "l", "d", " ", "f", "o", "r", ":", " ",
      "(", "1", ")", " ", "N", "u", "t", "r", "i", "e", "n", "t", " ", "d",
      "e", "f", "i", "c", "i", "e", "n", "c", "i", "e", "s", " ", "-", " ",
      "c", "o", "n", "s", "i", "d", "e", "r", " ", "s", "o", "i", "l", " ",
      "t", "e", "s", "t", "i", "n", "g", ",", " ", "(", "2", ")", " ", "P",
      "e", "s", "t", " ", "o", "r", " ", "d", "i", "s", "e", "a", "s", "e",
      " ", "p", "r", "e", "s", "s", "u", "r", "e", ",", " ", "(", "3", ")",
      " ", "W", "a", "t", "e", "r", " ", "s", "t", "r", "e", "s", "s", ".">>

\* lines 160-162
MaintainPracticesText ==
    <<"U+2705", " ", "C", "r", "o", "p", "s", " ", "s", "h", "o", "w", "i",
      "n", "g", " ", "e", "x", "c", "e", "l", "l", "e", "n", "t", " ", "h",
      "e", "a", "l", "t", "h", ".", " ", "M", "a", "i", "n", "t", "a", "i",
      "n", " ", "c", "u", "r", "r", "e", "n", "t", " ", "p", "r", "a", "c",
      "t", "i", "c", "e", "s", ".">>

\* lines 166-169
IrrigationText ==
    <<"U+1F4A7", " ", "L", "o", "w", " ", "m", "o", "i", "s", "t", "u", "r",
      "e", " ", "d", "e", "t", "e", "c", "t", "e", "d", " ", "(", "N", "D",
      "M", "I", " ", "<", " ", "0", ".", "2", ")", ".", " ", "C", "o", "n",
      "s", "i", "d", "e", "r", " ", "i", "r", "r", "i", "g", "a", "t", "i",
      "o", "n", " ", "i", "f", " ", "w", "a", "t", "e", "r", " ", "i", "s",
      " ", "a", "v", "a", "i", "l", "a", "b", "l", "e", ".", " ", "M", "o",
      "n", "i", "t", "o", "r", " ", "c", "r", "o", "p", " ", "w", "a", "t",
      "e", "r", " ", "s", "t", "r", "e", "s", "s", " ", "s", "y", "m", "p",
      "t", "o", "m", "s", ".">>

\* lines 171-173
DrainageText ==
    <<"U+1F4A7", " ", "H", "i", "g", "h", " ", "m", "o", "i", "s", "t", "u",
      "r", "e", " ", "l", "e", "v", "e", "l", "s", " ", "d", "e", "t", "e",
      "c", "t", "e", "d", ".", " ", "E", "n", "s", "u", "r", "e", " ", "p",
      "r", "o", "p", "e", "r", " ", "d", "r", "a", "i", "n", "a", "g", "e",
      " ", "t", "o", " ", "p", "r", "e", "v", "e", "n", "t", " ", "w", "a",
      "t", "e", "r", "l", "o", "g", "g", "i", "n", "g", ".">>

\* lines 177-180
WaterConservationText ==
    <<"U+1F335", " ", "D", "r", "o", "u", "g", "h", "t", " ", "r", "i", "s",
      "k", ":", " ", "L", "e", "s", "s", " ", "t", "h", "a", "n", " ", "2",
      "0", "m", "m", " ", "r", "a", "i", "n", "f", "a", "l", "l", " ", "i",
      "n", " ", "p", "a", "s", "t", " ", "3", "0", " ", "d", "a", "y", "s",
      ".", " ", "I", "m", "p", "l", "e", "m", "e", "n", "t", " ", "w", "a",
      "t", "e", "r", " ", "c", "o", "n", "s", "e", "r", "v", "a", "t", "i",
      "o", "n", ":", " ", "m", "u", "l", "c", "h", "i", "n", "g", ",", " ",
      "r", "e", "d", "u", "c", "e", " ", "t", "i", "l", "l", "a", "g", "e",
      ",", " ", "c", "o", "n", "s", "i", "d", "e", "r", " ", "i", "r", "r",
      "i", "g", "a", "t", "i", "o", "n", ".">>

\* lines 183-186
DrainagePreparationText ==
    <<"U+1F30A", " ", "H", "e", "a", "v", "y", " ", "r", "a", "i", "n", "f",
      "a", "l", "l", " ", "e", "x", "p", "e", "c", "t", "e", "d", " ", "(",
      ">", "1", "0", "0", "m", "m", " ", "i", "n", " ", "n", "e", "x", "t",
      " ", "7", " ", "d", "a", "y", "s", ")", ".", " ", "P", "r", "e", "p",
      "a", "r", "e", " ", "d", "r", "a", "i", "n", "a", "g", "e", " ", "s",
      "y", "s", "t", "e", "m", "s", ",", " ", "a", "v", "o", "i", "d", " ",
      "f", "i", "e", "l", "d", " ", "o", "p", "e", "r", "a", "t", "i", "o",
      "n", "s", " ", "u", "n", "t", "i", "l", " ", "s", "o", "i", "l", " ",
      "d", "r", "i", "e", "s", ".">>

\* lines 191-194
HeatAdvisoryText ==
    <<"U+1F321", "U+FE0F", " ", "H", "i", "g", "h", " ", "t", "e", "m", "p",
      "e", "r", "a", "t", "u", "r", "e", " ", "s", "t", "r", "e", "s", "s",
      " ", "(", "a", "v", "g", " ", ">", "3", "5", "U+00B0", "C", ")", ".",
      " ", "E", "n", "s", "u", "r", "e", " ", "a", "d", "e", "q", "u", "a",
      "t", "e", " ", "i", "r", "r", "i", "g", "a", "t", "i", "o", "n", ",",
      " ", "m", "o", "n", "i", "t", "o", "r", " ", "f", "o", "r", " ", "h",
      "e", "a", "t", " ", "s", "t", "r", "e", "s", "s", " ", "s", "y", "m",
      "p", "t", "o", "m", "s", ".">>

\* lines 196-199
ColdAdvisoryText ==
    <<"U+2744", "U+FE0F", " ", "L", "o", "w", " ", "t", "e", "m", "p", "e",
      "r", "a", "t", "u", "r", "e", " ", "d", "e", "t", "e", "c", "t", "e",
      "d", " ", "(", "a", "v", "g", " ", "<", "1", "0", "U+00B0", "C", ")",
      ".", " ", "M", "o", "n", "i", "t", "o", "r", " ", "f", "o", "r", " ",
      "f", "r", "o", "s", "t", " ", "d", "a", "m", "a", "g", "e", ",", " ",
      "d", "e", "l", "a", "y", " ", "s", "e", "n", "s", "i", "t", "i", "v",
      "e", " ", "o", "p", "e", "r", "a", "t", "i", "o", "n", "s", ".">>

\* lines 204-206
IrrigationPlanningText ==
    <<"U+2600", "U+FE0F", " ", "N", "o", " ", "r", "a", "i", "n", "f", "a",
      "l", "l", " ", "e", "x", "p", "e", "c", "t", "e", "d", " ", "i", "n",
      " ", "n", "e", "x", "t", " ", "7", " ", "d", "a", "y", "s", ".", " ",
      "P", "l", "a", "n", " ", "i", "r", "r", "i", "g", "a", "t", "i", "o",
      "n", " ", "a", "c", "c", "o", "r", "d", "i", "n", "g", "l", "y", ".">>

\* the same text with the slash written as a bar between spaces
DelayChemicalsText_bar ==
    <<"U+1F327", "U+FE0F", " ", "S", "i", "g", "n", "i", "f", "i", "c", "a",
      "n", "t", " ", "r", "a", "i", "n", "f", "a", "l", "l", " ", "e", "x",
      "p", "e", "c", "t", "e", "d", ".", " ", "D", "e", "l", "a", "y", " ",
      "f", "e", "r", "t", "i", "l", "i", "z", "e", "r", " ", "|", " ", "p",
      "e", "s", "t", "i", "c", "i", "d", "e", " ", "a", "p", "p", "l", "i",
      "c", "a", "t", "i", "o", "n", "s", ".">>

\* lines 208-210
DelayChemicalsText ==
    <<"U+1F327", "U+FE0F", " ", "S", "i", "g", "n", "i", "f", "i", "c", "a",
      "n", "t", " ", "r", "a", "i", "n", "f", "a", "l", "l", " ", "e", "x",
      "p", "e", "c", "t", "e", "d", ".", " ", "D", "e", "l", "a", "y", " ",
      "f", "e", "r", "t", "i", "l", "i", "z", "e", "r", "/", "p", "e", "s",
      "t", "i", "c", "i", "d", "e", " ", "a", "p", "p", "l", "i", "c", "a",
      "t", "i", "o", "n", "s", ".">>

\* lines 214-217
CriticalStageText ==
    <<"U+1F338", " ", "C", "r", "i", "t", "i", "c", "a", "l", " ", "f", "l",
      "o", "w", "e", "r", "i", "n", "g", " ", "s", "t", "a", "g", "e", " ",
      "d", "e", "t", "e", "c", "t", "e", "d", ".", " ", "E", "n", "s", "u",
      "r", "e", " ", "o", "p", "t", "i", "m", "a", "l", " ", "w", "a", "t",
      "e", "r", " ", "a", "n", "d", " ", "n", "u", "t", "r", "i", "e", "n",
      "t", "s", ".", " ", "A", "v", "o", "i", "d", " ", "s", "t", "r", "e",
      "s", "s", " ", "d", "u", "r", "i", "n", "g", " ", "t", "h", "i", "s",
      " ", "p", "e", "r", "i", "o", "d", " ", "f", "o", "r", " ", "m", "a",
      "x", "i", "m", "u", "m", " ", "y", "i", "e", "l", "d", ".">>

\* lines 223-226
FungalScoutingText ==
    <<"U+1F344", " ", "C", "o", "n", "d", "i", "t", "i", "o", "n", "s", " ",
      "f", "a", "v", "o", "r", "a", "b", "l", "e", " ", "f", "o", "r", " ",
      "f", "u", "n", "g", "a", "l", " ", "d", "i", "s", "e", "a", "s", "e",
      "s", " ", "(", "h", "i", "g", "h", " ", "r", "a", "i", "n", " ", "+",
      " ", "m", "o", "d", "e", "r", "a", "t", "e", " ", "t", "e", "m", "p",
      ")", ".", " ", "S", "c", "o", "u", "t", " ", "r", "e", "g", "u", "l",
      "a", "r", "l", "y", ",", " ", "c", "o", "n", "s", "i", "d", "e", "r",
      " ", "p", "r", "e", "v", "e", "n", "t", "i", "v", "e", " ", "f", "u",
      "n", "g", "i", "c", "i", "d", "e", " ", "i", "f", " ", "d", "i", "s",
      "e", "a", "s", "e", " ", "p", "r", "e", "s", "s", "u", "r", "e", " ",
      "i", "s", " ", "h", "i", "g", "h", ".">>

\* lines 230-232
CropsHealthyText ==
    <<"U+2705", " ", "C", "r", "o", "p", "s", " ", "a", "p", "p", "e", "a",
      "r", " ", "h", "e", "a", "l", "t", "h", "y", ".", " ", "C", "o", "n",
      "t", "i", "n", "u", "e", " ", "r", "e", "g", "u", "l", "a", "r", " ",
      "m", "o", "n", "i", "t", "o", "r", "i", "n", "g", " ", "a", "n", "d",
      " ", "m", "a", "i", "n", "t", "a", "i", "n", " ", "g", "o", "o", "d",
      " ", "a", "g", "r", "i", "c", "u", "l", "t", "u", "r", "a", "l", " ",
      "p", "r", "a", "c", "t", "i", "c", "e", "s", ".">>

\* line 234: the characters of the separator
SeparatorText == <<" ", "|", " ">>

\* the characters of each segment of a joined text
SegmentText ==
    (InspectField :> InspectFieldText)
    @@ (MaintainPractices :> MaintainPracticesText)
    @@ (Irrigation :> IrrigationText)
    @@ (Drainage :> DrainageText)
    @@ (WaterConservation :> WaterConservationText)
    @@ (DrainagePreparation :> DrainagePreparationText)
    @@ (HeatAdvisory :> HeatAdvisoryText)
    @@ (ColdAdvisory :> ColdAdvisoryText)
    @@ (IrrigationPlanning :> IrrigationPlanningText)
    @@ (DelayChemicals :> DelayChemicalsText)
    @@ (CriticalStage :> CriticalStageText)
    @@ (FungalScouting :> FungalScoutingText)
    @@ (CropsHealthy :> CropsHealthyText)
    @@ (Separator :> SeparatorText)

\* line 234: the characters of a joined text
RECURSIVE JoinedText(_)
JoinedText(joined) ==
    IF joined = <<>> THEN <<>>
    ELSE SegmentText[Head(joined)] \o JoinedText(Tail(joined))

\* sep, which is not empty, stands in s at position i
OccursAt(s, sep, i) ==
    /\ s[i] = sep[1]
    /\ i + Len(sep) - 1 <= Len(s)
    /\ \A k \in 2..Len(sep) : s[i + k - 1] = sep[k]

\* str.split(sep) from position start on: cut at the leftmost occurrence of
\* sep, go on behind it; found is where sep stands in s
RECURSIVE SplitFrom(_, _, _, _)
SplitFrom(s, sep, found, start) ==
    LET ahead == {i \in found : i >= start}
    IN  IF ahead = {} THEN <<SubSeq(s, start, Len(s))>>
        ELSE LET i == CHOOSE c \in ahead : \A d \in ahead : c <= d
             IN  <<SubSeq(s, start, i - 1)>> \o SplitFrom(s, sep, found, i + Len(sep))

\* pdf_gen.py line 306
Split(s, sep) == SplitFrom(s, sep, {i \in 1..Len(s) : OccursAt(s, sep, i)}, 1)

\* str.strip(): without the white space at either end
Whitespace == {" ", "\t", "\n", "\r", "\f"}
Strip(s) ==
    LET kept == {i \in 1..Len(s) : s[i] \notin Whitespace}
    IN  IF kept = {} THEN <<>>
        ELSE SubSeq(s, CHOOSE c \in kept : \A d \in 1..(c - 1) : d \notin kept,
                       CHOOSE c \in kept : \A d \in (c + 1)..Len(s) : d \notin kept)

\* weather records on which every rule of the composer can fire
RenderAnalyses ==
    {MakeDict(c) : c \in [total_rainfall_30d : {Absent, Val(81)},
                          forecast_rain_7d : {Val(0), Val(10), Val(51)},
                          avg_temperature : {Val(9), Val(21), Val(36)},
                          drought_risk : {Val(FALSE), Val(TRUE)},
                          flood_risk : {Val(FALSE), Val(TRUE)},
                          temperature_stress : {Val(FALSE), Val(TRUE)}]}

InitRender ==
    /\ pc = "idle"
    /\ now = Start
    /\ ndvi = Val(50)
    /\ ndmi \in {Val(10), Val(35), Val(51)}
    /\ weather_analysis \in RenderAnalyses
    /\ crop_type = <<"w", "h", "e", "a", "t">>
    /\ growth_stage \in {"Flowering", "Unknown"}
    /\ health_status \in HealthCategories
    /\ planting_date = UnusedArg
    /\ weather_data = UnusedArg
    /\ satellite_data = UnusedArg
    /\ recommendations = None
    /\ risks = None
    /\ result = None
    /\ NoReport

\* PDFGenerator._create_recommendations_section on the text the composer
\* returned: rec_list is the split text, the story one numbered paragraph
\* for each piece, stripped
CreateRecommendationsSection ==
    /\ pc = "done"
    /\ result.exc = ""
    /\ pc' = "rendered"
    /\ LET rec_list == Split(JoinedText(recommendations), SeparatorText)
       IN  result' = Returned([rec_list |-> rec_list,
                               story |-> [i \in 1..Len(rec_list) |->
                                             [number |-> i, text |-> Strip(rec_list[i])]]])
    /\ UNCHANGED <<now, weather_data, satellite_data, crop_type, planting_date,
                   ndvi, ndmi, weather_analysis, growth_stage, health_status,
                   recommendations, risks>>
    /\ UNCHANGED report_vars

NextRender == GenerateRecommendations \/ CreateRecommendationsSection

SpecRender == InitRender /\ [][NextRender]_vars

-----------------------------------------------------------------------------
(* Properties *)

Wheat == <<"w", "h", "e", "a", "t">>

\* the advisories of a joined recommendation text, and how often one occurs
Advisories(joined) == {joined[i] : i \in {j \in DOMAIN joined : joined[j] # Separator}}
Occurrences(joined, adv) == Cardinality({i \in DOMAIN joined : joined[i] = adv})

ParsesAsDate == planting_date # None /\ strptime(planting_date).exc = ""
DaysSincePlanting == TimedeltaDays(now, strptime(planting_date).val)

\* C1: for a planting date that parses, with d the whole days from it to the
\* clock, the stage is Not Planted for d < 0, Early Growth for 0 <= d < 30,
\* Vegetative for 30 <= d < 60, Flowering for 60 <= d < 90, Fruiting/Grain
\* Fill for 90 <= d < 120 and Maturity/Harvest from 120 on; the nine boundary
\* day counts of the spec fall as it lists them.
C1_GrowthStageBuckets ==
    (pc = "done" /\ ParsesAsDate) =>
        LET d == DaysSincePlanting
        IN  /\ (d < 0) => growth_stage = "Not Planted"
            /\ (0 <= d /\ d < 30) => growth_stage = "Early Growth"
            /\ (30 <= d /\ d < 60) => growth_stage = "Vegetative"
            /\ (60 <= d /\ d < 90) => growth_stage = "Flowering"
            /\ (90 <= d /\ d < 120) => growth_stage = "Fruiting/Grain Fill"
            /\ (d >= 120) => growth_stage = "Maturity/Harvest"
            /\ (d \in {0, 29}) => growth_stage = "Early Growth"
            /\ (d \in {30, 59}) => growth_stage = "Vegetative"
            /\ (d \in {60, 89}) => growth_stage = "Flowering"
            /\ (d \in {90, 119}) => growth_stage = "Fruiting/Grain Fill"
            /\ (d = 120) => growth_stage = "Maturity/Harvest"

C1_Witness ==
    /\ pc = "done"
    /\ ParsesAsDate
    /\ DaysSincePlanting = 120
    /\ now.sec # 0
    /\ growth_stage = "Maturity/Harvest"

\* the scenario of C2: wheat, indices 0.72 and 0.35, 45 mm fallen, 10 mm
\* forecast, 22 degrees, no flag set, planted 60 days before the call
Scenario2 ==
    /\ crop_type = Wheat
    /\ satellite_data = [ndvi_mean |-> Val(72), ndmi_mean |-> Val(35)]
    /\ weather_data = [analysis |-> [total_rainfall_30d |-> Val(45),
                                     forecast_rain_7d |-> Val(10),
                                     avg_temperature |-> Val(22),
                                     drought_risk |-> Val(FALSE),
                                     flood_risk |-> Val(FALSE),
                                     temperature_stress |-> Val(FALSE)]]
    /\ ParsesAsDate
    /\ DaysSincePlanting = 60

AllRisksLow ==
    risks = [drought |-> "Low", flood |-> "Low", disease |-> "Low",
             heat_stress |-> "Low", overall |-> "Low"]

\* C2 as the spec states it: the scenario yields Excellent, stage Vegetative,
\* every risk Low, and the maintain-practices advisory alone.
C2_ScenarioAsStated ==
    (pc = "done" /\ Scenario2) =>
        /\ result.exc = ""
        /\ result.val.health_status = "Excellent"
        /\ result.val.growth_stage = "Vegetative"
        /\ AllRisksLow
        /\ Advisories(result.val.recommendations) = {MaintainPractices}

\* C2 amended: the scenario yields Excellent, stage Flowering (day 60 opens
\* the flowering bucket), every risk Low, and exactly two advisories, the
\* maintain-practices one and then the critical-flowering-stage one.
C2_ScenarioAmended ==
    (pc = "done" /\ Scenario2) =>
        /\ result.exc = ""
        /\ result.val.health_status = "Excellent"
        /\ result.val.growth_stage = "Flowering"
        /\ AllRisksLow
        /\ result.val.risks = risks
        /\ result.val.recommendations = <<MaintainPractices, Separator, CriticalStage>>

C2_Witness == pc = "done" /\ Scenario2 /\ result.exc = ""

\* the numeric fields of the two summaries with their documented defaults
SatelliteDefaults == [ndvi_mean |-> Val(50), ndmi_mean |-> Val(30)]
WeatherDefaults == [total_rainfall_30d |-> Val(0), forecast_rain_7d |-> Val(0),
                    avg_temperature |-> Val(25)]

SetKey(d, key, v) == [k \in DOMAIN d \cup {key} |-> IF k = key THEN v ELSE d[k]]

RequestAnalysis == Get(weather_data, "analysis", EmptyDict)

NullSatelliteFields ==
    {k \in DOMAIN SatelliteDefaults : k \in DOMAIN satellite_data /\ satellite_data[k] = None}
NullWeatherFields ==
    {k \in DOMAIN WeatherDefaults : k \in DOMAIN RequestAnalysis /\ RequestAnalysis[k] = None}

\* a summary with the default written into every field of ks
WithDefaults(d, defaults, ks) ==
    [k \in DOMAIN d \cup ks |-> IF k \in ks THEN defaults[k] ELSE d[k]]

\* C3: when a numeric field of a summary is present but null, analyze does
\* not raise and returns the Assessment of the same request with the
\* documented default in place of each null.
C3_NullFieldsRecovered ==
    (pc = "done" /\ (NullSatelliteFields # {} \/ NullWeatherFields # {})) =>
        /\ result.exc = ""
        /\ result = analyze([analysis |-> WithDefaults(RequestAnalysis, WeatherDefaults,
                                                       NullWeatherFields)],
                            WithDefaults(satellite_data, SatelliteDefaults,
                                         NullSatelliteFields),
                            crop_type, planting_date, now)

\* C4: a request with an optional numeric field absent gets the Assessment
\* of the same request with the field set to its documented default.
C4_AbsentEqualsDefault ==
    (pc = "done") =>
        /\ \A k \in DOMAIN SatelliteDefaults \ DOMAIN satellite_data :
              result = analyze(weather_data,
                               SetKey(satellite_data, k, SatelliteDefaults[k]),
                               crop_type, planting_date, now)
        /\ \A k \in DOMAIN WeatherDefaults \ DOMAIN RequestAnalysis :
              result = analyze([analysis |-> SetKey(RequestAnalysis, k, WeatherDefaults[k])],
                               satellite_data, crop_type, planting_date, now)

Categories == {"drought", "flood", "disease", "heat_stress"}

\* how many of the four categories of a risks dict are at a level
CategoriesAt(r, level) == Cardinality({k \in Categories : r[k] = level})

\* the aggregation as C5 words it, each level by its own condition
OverallAsStated(r) ==
    /\ r["overall"] = "High" <=> CategoriesAt(r, "High") >= 2
    /\ r["overall"] = "Medium" <=>
          (CategoriesAt(r, "High") = 1 \/ CategoriesAt(r, "Medium") >= 2)
    /\ r["overall"] = "Low" <=>
          ~(CategoriesAt(r, "High") >= 2)
          /\ ~(CategoriesAt(r, "High") = 1 \/ CategoriesAt(r, "Medium") >= 2)

\* the same with Medium closed to the combinations that are High
OverallExclusive(r) ==
    /\ r["overall"] \in RiskLevels
    /\ r["overall"] = "High" <=> CategoriesAt(r, "High") >= 2
    /\ r["overall"] = "Medium" <=>
          \/ CategoriesAt(r, "High") = 1
          \/ (CategoriesAt(r, "High") = 0 /\ CategoriesAt(r, "Medium") >= 2)

\* the dict _assess_risks returns for four category levels
Aggregated(d, f, s, h) ==
    [CategoryRisks(d, f, s, h) EXCEPT !["overall"] = OverallRisk(CategoryRisks(d, f, s, h))]

\* C5 as the spec states it: overall is High iff at least two categories are
\* High, Medium iff exactly one is High or at least two are Medium, and Low
\* otherwise.
C5_OverallAsStated ==
    (pc = "done" /\ result.exc = "") => OverallAsStated(risks)

\* C5 amended: over the 81 combinations, and in every dict the function
\* returns, overall is High iff at least two categories are High, Medium iff
\* exactly one is High or none is High and at least two are Medium, and Low
\* otherwise.
C5_OverallAmended ==
    /\ (pc = "done" /\ result.exc = "") => OverallExclusive(risks)
    /\ \A d \in RiskLevels, f \in RiskLevels, s \in RiskLevels, h \in RiskLevels :
          OverallExclusive(Aggregated(d, f, s, h))

C5_Witness ==
    /\ pc = "done"
    /\ result.exc = ""
    /\ CategoriesAt(risks, "High") = 2
    /\ CategoriesAt(risks, "Medium") = 2
    /\ risks["overall"] = "High"

\* C6: overall comes from the four category levels alone, by the rule with
\* priorities: High when at least two are High, otherwise Medium when one is
\* High or at least two are Medium, otherwise Low; the dict holds the four
\* categories and overall, and the overall entry adds nothing to the counts.
C6_OverallPrioritized ==
    (pc = "done" /\ result.exc = "") =>
        /\ DOMAIN risks = Categories \cup {"overall"}
        /\ risks["overall"] =
              IF CategoriesAt(risks, "High") >= 2 THEN "High"
              ELSE IF CategoriesAt(risks, "High") >= 1
                      \/ CategoriesAt(risks, "Medium") >= 2 THEN "Medium"
              ELSE "Low"

C6_Witness ==
    /\ pc = "done"
    /\ result.exc = ""
    /\ CategoriesAt(risks, "High") = 0
    /\ CategoriesAt(risks, "Medium") = 1
    /\ risks["overall"] = "Low"

\* the profile a crop type selects
Other == <<"o", "t", "h", "e", "r">>
Profile(crop) == Get(CROP_NDVI_THRESHOLDS, Lower(crop), CROP_NDVI_THRESHOLDS[Other])

CutPoints == <<"excellent", "good", "moderate", "poor">>
CutPointCategory == <<"Excellent", "Good", "Moderate", "Poor">>

\* the category of the first cut point, in the order tried, that n meets
FirstCutPointMet(n, th) ==
    LET met == {i \in 1..4 : n >= th[CutPoints[i]]}
    IN  IF met = {} THEN "Critical"
        ELSE CutPointCategory[CHOOSE i \in met : \A j \in met : i <= j]

\* C7: the health category is one of the five, the one of the first cut
\* point of the crop's profile that the index meets or exceeds, Critical when
\* it meets none; an index equal to a cut point has that cut point's category.
C7_FirstCutPointDecides ==
    (pc = "done") =>
        /\ result.exc = ""
        /\ health_status \in HealthCategories
        /\ health_status = FirstCutPointMet(ndvi[1], Profile(crop_type))
        /\ \A i \in 1..4 :
              ndvi[1] = Profile(crop_type)[CutPoints[i]] => health_status = CutPointCategory[i]

C7_Witness ==
    /\ pc = "done"
    /\ crop_type = <<"c", "o", "r", "n">>
    /\ ndvi[1] = Profile(crop_type)["moderate"]
    /\ health_status = "Moderate"

Rank(category) ==
    CHOOSE i \in 1..5 :
        <<"Critical", "Poor", "Moderate", "Good", "Excellent">>[i] = category

\* C8: for the crop of the call, no index at or above the index of the call
\* is classified lower than the call's result.
C8_HealthMonotonic ==
    (pc = "done") =>
        \A b \in IndexValues :
            b[1] >= ndvi[1] =>
                Rank(_assess_crop_health(b, crop_type, growth_stage).val)
                    >= Rank(health_status)

C8_Witness ==
    /\ pc = "done"
    /\ health_status = "Poor"
    /\ \E b \in IndexValues :
          /\ b[1] > ndvi[1]
          /\ _assess_crop_health(b, crop_type, growth_stage).val = "Excellent"

\* two strings that differ at most in the case of their letters
SameIgnoringCase(a, b) ==
    /\ Len(a) = Len(b)
    /\ \A i \in 1..Len(a) :
          \/ a[i] = b[i]
          \/ \E j \in 1..26 : {a[i], b[i]} = {UpperCase[j], LowerCase[j]}

\* C9: the lookup never raises; a crop type that is a profile key up to
\* letter case is classified with that profile, and one that is no key even
\* so is classified with the profile of 'other'.
C9_CropLookup ==
    (pc = "done") =>
        /\ result.exc = ""
        /\ \A k \in ProfileKeys :
              SameIgnoringCase(crop_type, k) =>
                  health_status = FirstCutPointMet(ndvi[1], CROP_NDVI_THRESHOLDS[k])
        /\ (\A k \in ProfileKeys : ~SameIgnoringCase(crop_type, k)) =>
              health_status = FirstCutPointMet(ndvi[1], CROP_NDVI_THRESHOLDS[Other])

C9_Witness ==
    /\ pc = "done"
    /\ crop_type = <<"R", "I", "C", "E">>
    /\ ndvi = Val(75)
    /\ health_status = "Good"

\* the values the composer reads, with the defaults it reads them with
FlagSet(key) == Truthy(Get(weather_analysis, key, None))
MeanTemperature == Get(weather_analysis, "avg_temperature", Val(25))[1]
ForecastRain == Get(weather_analysis, "forecast_rain_7d", Val(0))[1]
TrailingRain == Get(weather_analysis, "total_rainfall_30d", Val(0))[1]

\* an advisory is in the output once when its condition holds, and not at all otherwise
FiresIff(adv, condition) ==
    Occurrences(recommendations, adv) = (IF condition THEN 1 ELSE 0)

\* C10: each rule of the composer adds its advisory exactly when its own
\* condition holds, whatever the other rules do, and never more than once.
C10_RulesFireIndependently ==
    (pc = "done") =>
        /\ result.exc = ""
        /\ FiresIff(InspectField, health_status \in {"Poor", "Critical"})
        /\ FiresIff(MaintainPractices, health_status = "Excellent")
        /\ FiresIff(Irrigation, ndmi[1] < 20)
        /\ FiresIff(Drainage, ndmi[1] > 50)
        /\ FiresIff(WaterConservation, FlagSet("drought_risk"))
        /\ FiresIff(DrainagePreparation, FlagSet("flood_risk"))
        /\ FiresIff(HeatAdvisory, FlagSet("temperature_stress") /\ MeanTemperature > 35)
        /\ FiresIff(ColdAdvisory, FlagSet("temperature_stress") /\ MeanTemperature < 10)
        /\ FiresIff(IrrigationPlanning, ForecastRain = 0)
        /\ FiresIff(DelayChemicals, ForecastRain > 50)
        /\ FiresIff(CriticalStage,
                    growth_stage = "Flowering" /\ health_status \in {"Good", "Excellent"})
        /\ FiresIff(FungalScouting,
                    TrailingRain > 80 /\ 20 < MeanTemperature /\ MeanTemperature < 30)

\* the temperature flag set at a mild temperature adds nothing, while other rules fire
C10_Witness ==
    /\ pc = "done"
    /\ FlagSet("temperature_stress")
    /\ MeanTemperature = 21
    /\ TrailingRain = 81
    /\ ndmi = Val(20)
    /\ health_status = "Critical"
    /\ recommendations = <<InspectField, Separator, IrrigationPlanning, Separator, FungalScouting>>

\* the checklist: the number of the rule group that appends each advisory
ChecklistRule ==
    (InspectField :> 1) @@ (MaintainPractices :> 1)
    @@ (Irrigation :> 2) @@ (Drainage :> 2)
    @@ (WaterConservation :> 3)
    @@ (DrainagePreparation :> 4)
    @@ (HeatAdvisory :> 5) @@ (ColdAdvisory :> 5)
    @@ (IrrigationPlanning :> 6) @@ (DelayChemicals :> 6)
    @@ (CriticalStage :> 7)
    @@ (FungalScouting :> 8)
    @@ (CropsHealthy :> 9)

\* the advisories of a joined text, in the order they stand in it
AdvisoryList(joined) == [i \in 1..((Len(joined) + 1) \div 2) |-> joined[2 * i - 1]]

\* C11: the output is the triggered advisories with the separator between
\* neighbours, and of any two advisories in it the one of the lower-numbered
\* rule (health, moisture, drought flag, flood flag, temperature stress,
\* forecast rain, flowering stage, fungal disease) stands first.
C11_ChecklistOrder ==
    (pc = "done") =>
        /\ result.exc = ""
        /\ Len(recommendations) % 2 = 1
        /\ \A i \in 1..Len(recommendations) :
               IF i % 2 = 0 THEN recommendations[i] = Separator
               ELSE recommendations[i] \in DOMAIN ChecklistRule
        /\ \A i, j \in 1..Len(AdvisoryList(recommendations)) :
               i < j => ChecklistRule[AdvisoryList(recommendations)[i]]
                            < ChecklistRule[AdvisoryList(recommendations)[j]]

\* seven of the eight rule groups in one output (a temperature advisory and
\* the fungal one need different temperatures)
C11_Witness ==
    /\ pc = "done"
    /\ AdvisoryList(recommendations)
           = <<MaintainPractices, Drainage, WaterConservation, DrainagePreparation,
               DelayChemicals, CriticalStage, FungalScouting>>

Rice == <<"r", "i", "c", "e">>

\* the request of the second scenario; what it leaves open (the date, the
\* temperature, the other two flags) is any value that is not null
Scenario12 ==
    /\ pc = "done"
    /\ crop_type = Rice
    /\ Get(satellite_data, "ndvi_mean", None) = Val(15)
    /\ Get(satellite_data, "ndmi_mean", None) = Val(10)
    /\ "analysis" \in DOMAIN weather_data
    /\ Get(weather_data.analysis, "total_rainfall_30d", None) = Val(10)
    /\ Get(weather_data.analysis, "drought_risk", None) = Val(TRUE)
    /\ Get(weather_data.analysis, "forecast_rain_7d", None) = Val(0)
    /\ Get(weather_data.analysis, "avg_temperature", Val(25)) # None

\* a occurs in the list, and b occurs somewhere after it
Precedes(list, a, b) ==
    \E i, j \in 1..Len(list) : i < j /\ list[i] = a /\ list[j] = b

\* C12: for rice with vegetation index 0.15, moisture index 0.1, trailing
\* rainfall 10, the drought flag set and no forecast rain, analyze returns
\* health Critical and drought risk High, and the recommendations hold the
\* inspect-field, irrigation, water-conservation and irrigation-planning
\* advisories in that relative order.
C12_RiceDroughtScenario ==
    Scenario12 =>
        /\ result.exc = ""
        /\ result.val.health_status = "Critical"
        /\ result.val.risks.drought = "High"
        /\ LET list == AdvisoryList(result.val.recommendations)
           IN  /\ Precedes(list, InspectField, Irrigation)
               /\ Precedes(list, Irrigation, WaterConservation)
               /\ Precedes(list, WaterConservation, IrrigationPlanning)

\* the scenario with no other rule firing: the four advisories are the output
C12_Witness ==
    /\ Scenario12
    /\ planting_date = None
    /\ recommendations = <<InspectField, Separator, Irrigation, Separator,
                           WaterConservation, Separator, IrrigationPlanning>>

\* C13: the recommendations analyze returns are never empty: they hold at
\* least one advisory, and analyze returns whenever no field it reads is null.
C13_RecommendationsNonEmpty ==
    (pc = "done") =>
        /\ (NullSatelliteFields = {} /\ NullWeatherFields = {}) => result.exc = ""
        /\ (result.exc = "") =>
               /\ Len(result.val.recommendations) >= 1
               /\ Advisories(result.val.recommendations) # {}

\* a request no rule fires on: the output is the default advisory alone
C13_Witness ==
    /\ pc = "done"
    /\ result.exc = ""
    /\ NullSatelliteFields = {}
    /\ NullWeatherFields = {}
    /\ result.val.recommendations = <<CropsHealthy>>

\* the advisories of rules 1 to 11
RuleAdvisories == DOMAIN ChecklistRule \ {CropsHealthy}

\* some rule's condition holds
SomeRuleFires ==
    \/ health_status \in {"Poor", "Critical", "Excellent"}
    \/ ndmi[1] < 20
    \/ ndmi[1] > 50
    \/ FlagSet("drought_risk")
    \/ FlagSet("flood_risk")
    \/ FlagSet("temperature_stress") /\ (MeanTemperature > 35 \/ MeanTemperature < 10)
    \/ ForecastRain = 0
    \/ ForecastRain > 50
    \/ growth_stage = "Flowering" /\ health_status \in {"Good", "Excellent"}
    \/ TrailingRain > 80 /\ 20 < MeanTemperature /\ MeanTemperature < 30

\* C14: the default advisory is in the output exactly when no rule's
\* condition held, which is exactly when no other advisory is in it; it is
\* then the whole output, once.
C14_DefaultOnlyWhenNothingFired ==
    (pc = "done") =>
        /\ result.exc = ""
        /\ (CropsHealthy \in Advisories(recommendations)) <=> ~SomeRuleFires
        /\ (CropsHealthy \in Advisories(recommendations))
               <=> (Advisories(recommendations) \cap RuleAdvisories = {})
        /\ (CropsHealthy \in Advisories(recommendations))
               => recommendations = <<CropsHealthy>>

\* the temperature flag is set at a mild temperature and nothing else is
\* out of range: the default advisory is the output
C14_Witness ==
    /\ pc = "done"
    /\ FlagSet("temperature_stress")
    /\ MeanTemperature = 30
    /\ TrailingRain = 81
    /\ recommendations = <<CropsHealthy>>

\* the list the composer built for the state's inputs, before the join
AppendedAdvisories ==
    RecommendationList(ndvi, ndmi, weather_analysis, crop_type,
                       growth_stage, health_status).val

\* C15: the separator stands in no advisory text, and the renderer's split
\* of the joined text returns the texts of the advisories the composer
\* appended, as many and in the same order; the numbered paragraphs carry
\* the same texts.
C15_SplitRecoversAdvisories ==
    /\ \A a \in DOMAIN ChecklistRule :
           \A i \in 1..Len(SegmentText[a]) : ~OccursAt(SegmentText[a], SeparatorText, i)
    /\ (pc = "rendered") =>
           LET appended == AppendedAdvisories
           IN  /\ Len(result.val.rec_list) = Len(appended)
               /\ \A i \in 1..Len(appended) :
                      /\ result.val.rec_list[i] = SegmentText[appended[i]]
                      /\ result.val.story[i].text = SegmentText[appended[i]]

\* seven advisories joined and split again
C15_Witness ==
    /\ pc = "rendered"
    /\ Len(result.val.rec_list) = 7
    /\ AppendedAdvisories[5] = DelayChemicals
    /\ result.val.rec_list[5] = DelayChemicalsText

C17_DiseaseTiers ==
    (pc = "done") =>
        /\ result.exc = ""
        /\ risks.disease =
               (IF TrailingRain > 80 /\ 20 < MeanTemperature /\ MeanTemperature < 30
                THEN "High"
                ELSE IF TrailingRain > 50 THEN "Medium"
                ELSE "Low")

\* rainfall above 80 at exactly 30 degrees: Medium
C17_Witness ==
    /\ pc = "done"
    /\ Get(weather_analysis, "total_rainfall_30d", None) = Val(81)
    /\ Get(weather_analysis, "avg_temperature", None) = Val(30)
    /\ risks.disease = "Medium"

\* C18: flood risk is High when the flood flag is set, otherwise Medium when
\* the forecast rainfall is above 50, otherwise Low: the flag and the forecast
\* decide it, whatever the other inputs are.
C18_FloodTiers ==
    (pc = "done") =>
        /\ result.exc = ""
        /\ risks.flood =
               (IF FlagSet("flood_risk") THEN "High"
                ELSE IF ForecastRain > 50 THEN "Medium"
                ELSE "Low")

\* a forecast just above 50 without the flag is Medium, while the drought and
\* heat categories are High
C18_Witness ==
    /\ pc = "done"
    /\ ~FlagSet("flood_risk")
    /\ Get(weather_analysis, "forecast_rain_7d", None) = Val(51)
    /\ risks.flood = "Medium"
    /\ risks.drought = "High"
    /\ risks.heat_stress = "High"

RiskKeys == {"drought", "flood", "disease", "heat_stress", "overall"}

\* C19: for a request whose summaries hold no null (numbers and flags present
\* or absent), with any crop name and with no planting date, an unparsable
\* one or a parsable one, analyze raises nothing and returns a health status
\* of the five categories, a growth stage of the seven stages, and a risks
\* map of exactly the keys drought, flood, disease, heat_stress and overall,
\* each Low, Medium or High.
C19_TotalOverWellTypedInputs ==
    (pc = "done" /\ NullSatelliteFields = {} /\ NullWeatherFields = {}) =>
        /\ result.exc = ""
        /\ result.val.health_status \in HealthCategories
        /\ result.val.growth_stage \in GrowthStages
        /\ DOMAIN result.val.risks = RiskKeys
        /\ \A k \in RiskKeys : result.val.risks[k] \in RiskLevels

\* an unknown crop and a planting date that does not parse, every number given
C19_Witness ==
    /\ pc = "done"
    /\ NullSatelliteFields = {}
    /\ NullWeatherFields = {}
    /\ DOMAIN satellite_data = DOMAIN SatelliteDefaults
    /\ DOMAIN WeatherDefaults \subseteq DOMAIN RequestAnalysis
    /\ crop_type \notin DOMAIN CROP_NDVI_THRESHOLDS
    /\ planting_date # None
    /\ strptime(planting_date).exc = "ValueError"
    /\ result.exc = ""
    /\ result.val.growth_stage = "Unknown"

\* C20: when the satellite summary has no vegetation index, analyze reads
\* 0.5 for it and the health status is neither Critical nor Excellent, for a
\* crop with a profile in any spelling and for a crop without one.
C20_DefaultIndexIsMidRange ==
    (pc = "done" /\ "ndvi_mean" \notin DOMAIN satellite_data) =>
        /\ result.exc = ""
        /\ result.val.metrics.ndvi = Val(50)
        /\ result.val.health_status \notin {"Critical", "Excellent"}
        /\ health_status = result.val.health_status

\* rice in capitals, whose profile has the highest cut points, without the
\* index: Moderate
C20_Witness ==
    /\ pc = "done"
    /\ "ndvi_mean" \notin DOMAIN satellite_data
    /\ crop_type = <<"R", "I", "C", "E">>
    /\ health_status = "Moderate"

\* the call is one with no planting date on summaries without a single field
DefaultsOnly ==
    /\ DOMAIN satellite_data = {}
    /\ DOMAIN RequestAnalysis = {}
    /\ planting_date = None

\* C21: a call of analyze with no planting date, on summaries that carry none
\* of the optional fields, returns the Assessment that the first such call
\* for the same crop returned at the starting clock, at whatever time it is
\* made and after whatever other calls: any two such calls return the same.
C21_DeterministicUnderDefaults ==
    (pc = "done" /\ DefaultsOnly) =>
        /\ result.exc = ""
        /\ result = analyze(EmptyDict, EmptyDict, crop_type, None, Start)
        /\ growth_stage = "Unknown"

\* such a call made a day after the start, for a crop spelt in capitals
C21_Witness ==
    /\ pc = "done"
    /\ DefaultsOnly
    /\ HalfDays(now) = 2
    /\ crop_type = <<"C", "O", "R", "N">>
    /\ result.exc = ""
    /\ result.val.health_status = "Moderate"

\* both upstream summaries are there
SummariesResolved ==
    /\ DOMAIN weather_data # {}
    /\ "analysis" \in DOMAIN weather_data
    /\ DOMAIN satellite_data # {}
    /\ "ndvi_mean" \in DOMAIN satellite_data

\* C22: generate_report runs weather fetch, satellite fetch, analyze, PDF
\* generation and response in that order: at each stage the earlier ones have
\* left their values and the later ones have left none, so analyze runs only
\* on two resolved summaries; when analyze or the PDF generation raises, the
\* request ends as HTTP 500 with no later stage run and no email task; an
\* email task exists only after every stage succeeded for a request that
\* carries an email.
C22_StagesInOrder ==
    /\ (pc = "weather") => (weather_data = None /\ satellite_data = None)
    /\ (pc = "satellite") => (DOMAIN weather_data # {} /\ satellite_data = None)
    /\ (pc \in {"weather", "satellite", "idle"}) => result = None
    /\ (pc \in {"idle", "done", "pdf", "responded", "failed"}) => SummariesResolved
    /\ (pc \in {"weather", "satellite", "idle", "done"}) => pdf_result = None
    /\ (pc \in {"weather", "satellite", "idle", "done", "pdf"}) =>
           (response = None /\ background_tasks = <<>>)
    /\ (pc \in {"pdf", "responded"}) => result.exc = ""
    /\ (pc = "failed") =>
           /\ response.status_code = 500
           /\ pdf_result = None
           /\ background_tasks = <<>>
    /\ (pc = "responded") =>
           /\ response.status_code = 200
           /\ Len(background_tasks) = (IF email # <<>> THEN 1 ELSE 0)
    /\ (background_tasks # <<>>) =>
           /\ pc = "responded"
           /\ email # <<>>
           /\ result.exc = ""
           /\ background_tasks[1].email = email

\* a request that carries an email, on which analyze raised: HTTP 500 and no
\* email task
C22_Witness ==
    /\ pc = "failed"
    /\ email = Address
    /\ result.exc = "TypeError"
    /\ response.status_code = 500
    /\ background_tasks = <<>>


\* C23: once get_weather_analysis has returned for a request whose archive or
\* forecast call raised, the weather data is the fallback record: mean
\* temperature 25, trend "unknown", both rainfall totals 0, the three flags
\* false and the "error" marker present.
C23_FallbackOnApiFailure ==
    (/\ pc # "weather"
     /\ (open_meteo.archive.exc # "" \/ open_meteo.forecast.exc # ""))
        => /\ weather_data = _get_fallback_weather_data
           /\ "error" \in DOMAIN weather_data
           /\ weather_data.analysis.avg_temperature = Val(25)
           /\ weather_data.analysis.rainfall_trend = Val("unknown")


\* C24: in every Assessment analyze returns, the disease risk is "High"
\* exactly when the fungal-disease-scouting advisory is among the
\* recommendations, also when the trailing rainfall or the mean temperature
\* is absent from the weather summary and read with its default.
C24_FungalSignalsAgree ==
    (pc = "done" /\ result.exc = "") =>
        (result.val.risks.disease = "High"
            <=> FungalScouting \in Advisories(result.val.recommendations))

\* 90 mm of rain and no mean temperature: both paths read 25 and both signal
C24_Witness ==
    /\ pc = "done"
    /\ result.exc = ""
    /\ "avg_temperature" \notin DOMAIN RequestAnalysis
    /\ Get(RequestAnalysis, "total_rainfall_30d", None) = Val(90)
    /\ result.val.risks.disease = "High"
    /\ FungalScouting \in Advisories(result.val.recommendations)


\* the weather record of the request came out of _analyze_weather_data
ProducedRecord == pc # "weather" /\ "error" \notin DOMAIN weather_data

\* C25: in a weather record produced by _analyze_weather_data each flag agrees
\* with the aggregates beside it (temperature stress only with a mean above 35
\* or below 10, drought only under 20 mm, flood only above 100 mm ahead), and
\* so an Assessment whose heat-stress risk is "High" holds exactly one of the
\* heat advisory and the cold advisory.
C25_FlagsMatchAggregates ==
    ProducedRecord =>
        LET a == weather_data.analysis
        IN  /\ (a.temperature_stress = Val(TRUE)) =>
                   (a.avg_temperature[1] > 35 \/ a.avg_temperature[1] < 10)
            /\ (a.drought_risk = Val(TRUE)) => a.total_rainfall_30d[1] < 20
            /\ (a.flood_risk = Val(TRUE)) => a.forecast_rain_7d[1] > 100
            /\ (/\ pc \notin {"satellite", "idle"}
                /\ result.exc = ""
                /\ result.val.risks.heat_stress = "High") =>
                   Cardinality({HeatAdvisory, ColdAdvisory}
                                   \cap Advisories(result.val.recommendations)) = 1

\* a month with a mean of 36 degrees: the risk is "High" with the heat
\* advisory and without the cold one
C25_Witness ==
    /\ ProducedRecord
    /\ pc = "done"
    /\ result.exc = ""
    /\ weather_data.analysis.avg_temperature = Val(36)
    /\ weather_data.analysis.temperature_stress = Val(TRUE)
    /\ result.val.risks.heat_stress = "High"
    /\ HeatAdvisory \in Advisories(result.val.recommendations)
    /\ ColdAdvisory \notin Advisories(result.val.recommendations)


\* the service is uninitialized, or no image is found, or a step of the fetch
\* raises
FetchUnavailable ==
    \/ ~initialized
    \/ earth_engine.image \in {"raises", "none"}
    \/ earth_engine.ndvi.exc # ""
    \/ earth_engine.ndmi.exc # ""
    \/ earth_engine.metadata = "raises"

\* an uninitialized service answers with the mock record, and on a mock
\* record analyze returns a health status that is neither "Poor" nor
\* "Critical" and neither moisture advisory
MockRecordIsBenign ==
    /\ (pc \notin {"weather", "satellite"} /\ ~initialized) =>
           satellite_data = _get_mock_satellite_data(earth_engine.uniform)
    /\ (/\ pc \notin {"weather", "satellite", "idle"}
        /\ "mock_data" \in DOMAIN satellite_data) =>
           /\ result.exc = ""
           /\ result.val.health_status \notin {"Poor", "Critical"}
           /\ Irrigation \notin Advisories(result.val.recommendations)
           /\ Drainage \notin Advisories(result.val.recommendations)

\* C26: once get_ndvi_analysis has returned for a request on which the
\* service was uninitialized, no image was found or a step of the fetch
\* raised, the satellite data is the mock record; and for a mock record
\* analyze returns, for any crop name, a health status that is neither "Poor"
\* nor "Critical" and recommendations without the low-moisture and the
\* high-moisture advisory.
C26_MockWhenUnavailable ==
    /\ (pc \notin {"weather", "satellite"} /\ FetchUnavailable) =>
           satellite_data = _get_mock_satellite_data(earth_engine.uniform)
    /\ MockRecordIsBenign

=============================================================================
